---- MODULE Spec2Model ----
(***************************************************************************)
(* haru_chat_auth_server: registration, login (JWT issuance), the          *)
(* authenticate / authorize middleware and the admin user routes, over a   *)
(* PostgreSQL store with the tables users, roles and user_roles.           *)
(*                                                                         *)
(* Every HTTP request is one Express middleware chain run by one client;   *)
(* the chains of different clients interleave at every `await` on the      *)
(* store.  A single SQL statement, and a BEGIN..COMMIT transaction, is one *)
(* atomic step on the committed store (READ COMMITTED isolation).          *)
(*                                                                         *)
(* Spec is the server with the clock standing still.  SpecPublic is Spec   *)
(* without the protected routes.  SpecToken moves the clock over one       *)
(* token, and SpecAuthorize applies authorize to every argument and        *)
(* request context.                                                        *)
(***************************************************************************)
EXTENDS Integers, Sequences, FiniteSets, TLC

VARIABLES
    users,       \* table users: rows [id, username, password, is_banned]
    user_roles,  \* table user_roles: pairs <<user_id, role_id>>
    roles,       \* table roles: rows [id, name]
    nextId,      \* the SERIAL sequence behind users.id
    now,         \* wall clock, in token lifetimes' unit
    req,         \* per client: its request in flight
    held,        \* per client: the tokens its successful logins returned
    out,         \* the request just answered, with its response, until the
                 \* response is delivered
    call         \* one call of the token codec or of authorize on its own:
                 \* its arguments and what it returned

vars == <<users, user_roles, roles, nextId, now, req, held, out, call>>

store == <<users, user_roles, roles, nextId>>

(***************************************************************************)
(* Bounds of the model.                                                    *)
(***************************************************************************)
MaxUsers == 3      \* the SERIAL sequence hands out ids 1..MaxUsers
MaxTime == 3       \* the clock runs 0..MaxTime
MaxRoles == 2      \* the longest array of roles handed to authorize
MaxParts == 4      \* the most pieces an Authorization header is made of

Clients == {"c1", "c2"}         \* every client uses the public routes
Admins == {"c1"}                \* the clients that also call protected routes
Usernames == {"root", "a"}     \* the names a login is tried with
NewUsernames == {"a"}          \* the names a user is created with
Passwords == {"p", "q"}
RoleNames == {"user", "admin", "guest"}   \* "guest" is in no roles row
Connections == {"k1", "k2"}    \* the pool clients that run transactions

(***************************************************************************)
(* Configuration read from the environment.                                *)
(***************************************************************************)
saltRounds == 10
JWT_SECRET == "secret"
JWT_EXPIRES_IN == 2

(***************************************************************************)
(* Strings.  String.prototype.includes is a case-sensitive substring test. *)
(***************************************************************************)
Includes(s, sub) ==
    \E i \in 0..(Len(s) - Len(sub)) : SubSeq(s, i + 1, i + Len(sub)) = sub

(***************************************************************************)
(* Errors: an Error object is its name and its message.                    *)
(***************************************************************************)
Err(name, message) == [name |-> name, message |-> message]

\* Error.prototype.toString, which `${error}` applies
ErrToString(e) == e.name \o ": " \o e.message

NoErr == Err("", "")

ValidationError(m) == Err("ValidationError", m)
AuthenticationError(m) == Err("AuthenticationError", m)
ForbiddenError(m) == Err("ForbiddenError", m)
NotFoundError(m) == Err("NotFoundError", m)
ConflictError(m) == Err("ConflictError", m)

\* the status table of errorHandler; any other name falls to 500
errorTypes(name) ==
    CASE name = "ValidationError" -> 400
      [] name = "AuthenticationError" -> 401
      [] name = "ForbiddenError" -> 403
      [] name = "NotFoundError" -> 404
      [] name = "ConflictError" -> 409
      [] OTHER -> 500

(***************************************************************************)
(* Responses.  token and user are sets: empty when the body has none.      *)
(***************************************************************************)
Response(status, errName, message, token, user) ==
    [status |-> status, error |-> errName, message |-> message,
     token |-> token, user |-> user]

NoResponse == Response(0, "", "", {}, {})

errorHandler(err) == Response(errorTypes(err.name), err.name, err.message, {}, {})

(***************************************************************************)
(* Credential hashing (bcrypt).  A hash records the cost and what was      *)
(* hashed; compare re-derives the hash from the plaintext.                 *)
(***************************************************************************)
hashPassword(password) ==
    [alg |-> "bcrypt", cost |-> saltRounds, plain |-> password]

verifyPassword(password, hashedPassword) ==
    hashedPassword = hashPassword(password)

(***************************************************************************)
(* The User model and the row mapping.                                     *)
(***************************************************************************)
NULL == "NULL"

User(id, username, password, isBanned, userRoles) ==
    [id |-> id, username |-> username, password |-> password,
     isBanned |-> isBanned, roles |-> userRoles]

\* a projection that keeps every field of the model
getWholeObject(user) == user

getSafeObject(user) ==
    [id |-> user.id, username |-> user.username,
     isBanned |-> user.isBanned, roles |-> user.roles]

\* array_agg(r.name) over users LEFT JOIN user_roles LEFT JOIN roles for one
\* users row: one entry per link, NULL where the join found nothing
ArrayAggRoles(id) ==
    LET links == {ur \in user_roles : ur[1] = id}
        nameOf(ur) == LET rs == {r \in roles : r.id = ur[2]}
                      IN  IF rs = {} THEN {NULL} ELSE {r.name : r \in rs}
    IN  IF links = {} THEN {NULL} ELSE UNION {nameOf(ur) : ur \in links}

mapDbUserToModel(row) ==
    User(row.id, row.username, row.password, row.is_banned,
         {role \in ArrayAggRoles(row.id) : role # NULL})

(***************************************************************************)
(* DbService reads.  A query's result.rows is a set here; rows[0] is any   *)
(* of them, as the queries carry no ORDER BY.                              *)
(***************************************************************************)
RowsByUsername(username) == {u \in users : u.username = username}

RowsById(id) == {u \in users : u.id = id}

\* DbService.getUserByUsername: the models rows[0] may map to; {} when null
getUserByUsername(username) ==
    {mapDbUserToModel(row) : row \in RowsByUsername(username)}

\* DbService.getUserById
getUserById(id) == {mapDbUserToModel(row) : row \in RowsById(id)}

(***************************************************************************)
(* Token codec (jsonwebtoken).  sign stamps iat and exp on the payload and *)
(* signs the result with the secret; verify checks the signature first and *)
(* the expiry second.                                                      *)
(***************************************************************************)
Signature(secret, body) == [key |-> secret, over |-> body]

generateToken(payload, t) ==
    LET body == [userId |-> payload.userId, username |-> payload.username,
                 roles |-> payload.roles, iat |-> t, exp |-> t + JWT_EXPIRES_IN]
    IN  [body |-> body, sig |-> Signature(JWT_SECRET, body)]

\* verify checking the signature and not the expiry
verifyTokenIgnoringExpiry(token, t) ==
    IF token.sig # Signature(JWT_SECRET, token.body)
    THEN [err |-> Err("JsonWebTokenError", "invalid signature"), decoded |-> {}]
    ELSE [err |-> NoErr, decoded |-> {token.body}]

\* [err, decoded]: decoded is {} when verify throws
verifyToken(token, t) ==
    IF token.sig # Signature(JWT_SECRET, token.body)
    THEN [err |-> Err("JsonWebTokenError", "invalid signature"), decoded |-> {}]
    ELSE IF t >= token.body.exp
    THEN [err |-> Err("TokenExpiredError", "jwt expired"), decoded |-> {}]
    ELSE [err |-> NoErr, decoded |-> {token.body}]

\* an Authorization header is <<>> (absent) or <<scheme, token>>
extractToken(header) ==
    IF header # <<>> /\ header[1] = "Bearer" THEN {header[2]} ELSE {}

\* a token the server issued to the seeded admin one lifetime before the
\* model starts: correctly signed, expired from time 0 on
ExpiredToken ==
    LET body == [userId |-> 1, username |-> "root", roles |-> {"user", "admin"},
                 iat |-> 0 - JWT_EXPIRES_IN, exp |-> 0]
    IN  [body |-> body, sig |-> Signature(JWT_SECRET, body)]

\* a string that is not a JWT: jwt.verify finds no signature to check
MalformedToken ==
    LET body == [userId |-> 0, username |-> "", roles |-> {}, iat |-> 0, exp |-> 0]
    IN  [body |-> body, sig |-> Signature("", body)]

\* a token signed by somebody who does not know JWT_SECRET, claiming admin
ForgedToken ==
    LET body == [userId |-> 1, username |-> "root", roles |-> {"user", "admin"},
                 iat |-> 0, exp |-> MaxTime + 1]
    IN  [body |-> body, sig |-> Signature("guess", body)]

(***************************************************************************)
(* UserService reads: the safe projection of what DbService returns.       *)
(***************************************************************************)
UserService_getUserById(id) == {getSafeObject(u) : u \in getUserById(id)}

UserService_getUserByUsername(username) ==
    {getSafeObject(u) : u \in getUserByUsername(username)}

(***************************************************************************)
(* The access-control middleware.                                          *)
(***************************************************************************)
\* authenticate that checks the user exists and not whether it is banned
authenticateIgnoringBan(header, t) ==
    LET token == extractToken(header)
    IN  IF token = {}
        THEN [err |-> AuthenticationError("Authentication required"), user |-> {}]
        ELSE
          LET v == verifyToken(CHOOSE x \in token : TRUE, t)
          IN  IF v.err # NoErr
              THEN [err |-> AuthenticationError("Invalid or expired token"),
                    user |-> {}]
              ELSE
                LET decoded == CHOOSE d \in v.decoded : TRUE
                    user == UserService_getUserById(decoded.userId)
                IN  IF user = {}
                    THEN [err |-> AuthenticationError("User not found"), user |-> {}]
                    ELSE [err |-> NoErr, user |-> {decoded}]

\* authenticate at time t against the current store: [err, user], user being
\* what it leaves in req.user
authenticate(header, t) ==
    LET token == extractToken(header)
    IN  IF token = {}
        THEN [err |-> AuthenticationError("Authentication required"), user |-> {}]
        ELSE
          LET v == verifyToken(CHOOSE x \in token : TRUE, t)
          IN  IF v.err # NoErr
              THEN [err |-> AuthenticationError("Invalid or expired token"),
                    user |-> {}]
              ELSE
                LET decoded == CHOOSE d \in v.decoded : TRUE
                    user == UserService_getUserById(decoded.userId)
                IN  IF user = {}
                    THEN [err |-> AuthenticationError("User not found"), user |-> {}]
                    ELSE IF \E u \in user : u.isBanned
                    THEN [err |-> ForbiddenError("User is banned"), user |-> {}]
                    ELSE [err |-> NoErr, user |-> {decoded}]

\* The argument of authorize is a JavaScript value: a string, an array of
\* strings, or undefined (the default [] then applies).
JsString(v) == [type |-> "string", str |-> v, arr |-> <<>>]
JsArray(v) == [type |-> "array", str |-> "", arr |-> v]
JsUndefined == [type |-> "undefined", str |-> "", arr |-> <<>>]

\* req.user as authorize reads it: is there one, has it a roles value, and
\* the roles in it
Context(present, hasRoles, userRoles) ==
    [present |-> present, hasRoles |-> hasRoles, roles |-> userRoles]

NoContext == Context(FALSE, FALSE, {})

ContextOf(reqUser) ==
    IF reqUser = {} THEN NoContext
    ELSE Context(TRUE, TRUE, (CHOOSE u \in reqUser : TRUE).roles)

SeqRange(s) == {s[i] : i \in 1..Len(s)}

\* authorize asking for every required role
authorizeEveryRole(rolesArg, ctx) ==
    LET required == IF rolesArg.type = "undefined" THEN <<>>
                    ELSE IF rolesArg.type = "string" THEN <<rolesArg.str>>
                    ELSE rolesArg.arr
    IN  ~ ( \/ ~ctx.present
            \/ ~ctx.hasRoles
            \/ /\ Len(required) # 0
               /\ ~ \A role \in SeqRange(required) : role \in ctx.roles )

\* TRUE when the middleware authorize(rolesArg) calls next(), FALSE when it
\* throws ForbiddenError("Insufficient permissions")
authorize(rolesArg, ctx) ==
    LET required == IF rolesArg.type = "undefined" THEN <<>>
                    ELSE IF rolesArg.type = "string" THEN <<rolesArg.str>>
                    ELSE rolesArg.arr
    IN  ~ ( \/ ~ctx.present
            \/ ~ctx.hasRoles
            \/ /\ Len(required) # 0
               /\ ~ \E role \in ctx.roles : role \in SeqRange(required) )

(***************************************************************************)
(* The route tables.  A route is the table that declares it and the        *)
(* operation its handler performs; its chain is the middleware in front of *)
(* the handler, in the order the route lists it.                           *)
(***************************************************************************)
Route(table, op) == [table |-> table, op |-> op]

Mw(fn, rolesArg) == [fn |-> fn, roles |-> rolesArg]

AuthenticateMw == Mw("authenticate", JsUndefined)
AuthorizeAdminMw == Mw("authorize", JsArray(<<"admin">>))
HandlerMw == Mw("handler", JsUndefined)

AuthRoutes == {Route("authRoutes", "register"), Route("authRoutes", "login")}

AppRoutes ==
    {Route("app", op) : op \in {"createUser", "deleteUser", "banUser", "unbanUser"}}

UserRoutes ==
    {Route("userRoutes", op) :
        op \in {"createUser", "deleteUser", "banUser", "unbanUser", "getAllUsers"}}

AdminRoutes == AppRoutes \cup UserRoutes

ValidateRoute == Route("authRoutes", "validate")
MeRoute == Route("authRoutes", "me")

\* GET /api/users/:id.  In userRoutes the path ":id" of the first
\* declaration matches no request path (they all start with "/"), so the
\* route that answers there is the later "/:id", behind authorize(["admin"]).
GetUserRoutes == {Route("app", "getUserById"), Route("userRoutes", "getUserById")}

\* the routes behind authenticate that any user may call
AccountRoutes == {MeRoute} \cup GetUserRoutes

\* the protected routes without the role check
ChainWithoutAuthorize(route) ==
    IF route \in AuthRoutes \cup {ValidateRoute} THEN <<HandlerMw>>
    ELSE <<AuthenticateMw, HandlerMw>>

Chain(route) ==
    IF route \in AuthRoutes \cup {ValidateRoute} THEN <<HandlerMw>>
    ELSE IF route \in {MeRoute, Route("app", "getUserById")}
    THEN <<AuthenticateMw, HandlerMw>>
    ELSE <<AuthenticateMw, AuthorizeAdminMw, HandlerMw>>

\* Express runs the chain in order; each middleware either calls next() or
\* hands an error to the error handler, which ends the request.  The result
\* is [err, user, passed, handler]: passed lists the middleware that called
\* next(), handler says whether the route handler is entered.
RECURSIVE RunChain(_, _, _, _, _, _)
RunChain(chain, i, reqUser, passed, header, t) ==
    IF i > Len(chain)
    THEN [err |-> NoErr, user |-> reqUser, passed |-> passed, handler |-> FALSE]
    ELSE
      LET m == chain[i]
      IN  IF m.fn = "handler"
          THEN [err |-> NoErr, user |-> reqUser, passed |-> passed,
                handler |-> TRUE]
          ELSE IF m.fn = "authenticate"
          THEN LET r == authenticate(header, t)
               IN  IF r.err # NoErr
                   THEN [err |-> r.err, user |-> reqUser, passed |-> passed,
                         handler |-> FALSE]
                   ELSE RunChain(chain, i + 1, r.user,
                                 Append(passed, "authenticate"), header, t)
          ELSE IF authorize(m.roles, ContextOf(reqUser))
               THEN RunChain(chain, i + 1, reqUser,
                             Append(passed, "authorize"), header, t)
               ELSE [err |-> ForbiddenError("Insufficient permissions"),
                     user |-> reqUser, passed |-> passed, handler |-> FALSE]

(***************************************************************************)
(* Requests.  pc is where the request waits: every value but "idle" is an  *)
(* await on the store (or on bcrypt) that the request has not resumed      *)
(* from; in an answered request it is the step that answered ("chain": a   *)
(* middleware in front of the handler).  found is what the request's       *)
(* lookup by username returned, verified whether bcrypt.compare ran.       *)
(* known is history: whether, when a login looked its user up, the store   *)
(* held an unbanned user with the username and password of the request.    *)
(***************************************************************************)
Request(route, pc, username, password, id, header, reqUser, passed, found, known) ==
    [client |-> "", route |-> route, pc |-> pc, username |-> username,
     password |-> password, id |-> id, header |-> header, user |-> reqUser,
     passed |-> passed, found |-> found, known |-> known, verified |-> FALSE,
     resp |-> NoResponse]

Idle == Request(Route("", ""), "idle", "", "", 0, <<>>, {}, <<>>, {}, FALSE)

\* what a client may send as its Authorization header
Headers(c) == {<<>>} \cup {<<"Bearer", t>> : t \in held[c] \cup {ForgedToken}}

Input(username, password, id) ==
    [username |-> username, password |-> password, id |-> id]

\* the body and path parameters each operation reads
Inputs(op) ==
    IF op = "login"
    THEN {Input(u, p, 0) : u \in Usernames, p \in Passwords}
    ELSE IF op \in {"register", "createUser"}
    THEN {Input(u, p, 0) : u \in NewUsernames, p \in Passwords}
    ELSE IF op = "getAllUsers" THEN {Input("", "", 0)}
    ELSE {Input("", "", i) : i \in 1..MaxUsers}

Answered(c, r, resp) == {[r EXCEPT !.resp = resp, !.client = c]}

(***************************************************************************)
(* UserService.createUser, in its two store accesses.                      *)
(***************************************************************************)
\* up to the result of getUserByUsername: the error thrown, or NoErr
createUserLookup(username, password) ==
    IF UserService_getUserByUsername(username) # {}
    THEN Err("Error", "Error creating new user: "
                      \o ErrToString(Err("Error", "Error user already exists:")))
    ELSE NoErr

\* AuthService.register's catch block
registerCatch(error) ==
    IF Includes(error.message, "User already exists")
    THEN ConflictError("User already exists")
    ELSE error

\* a catch block that maps "User not found" only
loginCatchNotFoundOnly(error) ==
    IF error.message = "User not found" THEN NotFoundError("User not found")
    ELSE IF error.message = "user has been banned"
    THEN AuthenticationError("invalid password")
    ELSE error

\* AuthService.login's catch block
loginCatch(error) ==
    IF error.message = "User not found" THEN NotFoundError("User not found")
    ELSE IF error.message = "user has been banned"
    THEN ForbiddenError("Permission denied")
    ELSE error

\* authenticateUser comparing the password before it looks at the ban
authenticateUserPasswordFirst(picked, password) ==
    IF picked = {}
    THEN [success |-> FALSE, message |-> "User not found", user |-> {},
          verified |-> FALSE]
    ELSE
      LET user == CHOOSE u \in picked : TRUE
      IN  IF ~verifyPassword(password, user.password)
          THEN [success |-> FALSE, message |-> "invalid password", user |-> {},
                verified |-> TRUE]
          ELSE IF user.isBanned
          THEN [success |-> FALSE, message |-> "user has been banned",
                user |-> {}, verified |-> TRUE]
          ELSE [success |-> TRUE, message |-> "Authentication successful",
                user |-> {getSafeObject(user)}, verified |-> TRUE]

\* UserService.authenticateUser on rows[0] of the lookup (picked: {} when
\* there is no row); verified says whether bcrypt.compare was called
authenticateUser(picked, password) ==
    IF picked = {}
    THEN [success |-> FALSE, message |-> "User not found", user |-> {},
          verified |-> FALSE]
    ELSE
      LET user == CHOOSE u \in picked : TRUE
      IN  IF user.isBanned
          THEN [success |-> FALSE, message |-> "user has been banned",
                user |-> {}, verified |-> FALSE]
          ELSE IF ~verifyPassword(password, user.password)
          THEN [success |-> FALSE, message |-> "invalid password", user |-> {},
                verified |-> TRUE]
          ELSE [success |-> TRUE, message |-> "Authentication successful",
                user |-> {getSafeObject(user)}, verified |-> TRUE]

\* login signing the id and the username only
loginWithoutRoles(authResult, t) ==
    IF ~authResult.success
    THEN errorHandler(loginCatch(AuthenticationError(authResult.message)))
    ELSE
      LET user == CHOOSE u \in authResult.user : TRUE
          token == generateToken([userId |-> user.id, username |-> user.username,
                                  roles |-> {}], t)
      IN  Response(200, "", "Login successful", {token}, {user})

\* AuthService.login after authenticateUser, and the controller's response
login(authResult, t) ==
    IF ~authResult.success
    THEN errorHandler(loginCatch(AuthenticationError(authResult.message)))
    ELSE
      LET user == CHOOSE u \in authResult.user : TRUE
          token == generateToken([userId |-> user.id, username |-> user.username,
                                  roles |-> user.roles], t)
      IN  Response(200, "", "Login successful", {token}, {user})

\* how a route's handler answers an error thrown by the service: the
\* controllers pass it to errorHandler, the inline handlers of app.js answer
\* 500 themselves
handlerError(route, appMessage, error) ==
    IF route.table = "app"
    THEN Response(500, "", appMessage, {}, {})
    ELSE errorHandler(error)

(***************************************************************************)
(* The initial state: the roles are seeded and the store holds one         *)
(* administrator, whose admin link was inserted by hand (no operation of   *)
(* the server writes role 2).                                              *)
(***************************************************************************)
RootRow == [id |-> 1, username |-> "root", password |-> hashPassword("p"),
            is_banned |-> FALSE]

Init ==
    /\ users = {RootRow}
    /\ user_roles = {<<1, 1>>, <<1, 2>>}
    /\ roles = {[id |-> 1, name |-> "user"], [id |-> 2, name |-> "admin"]}
    /\ nextId = 2
    /\ now = 0
    /\ req = [c \in Clients |-> Idle]
    /\ held = [c \in Clients |-> {}]
    /\ out = {}
    /\ call = <<>>

(***************************************************************************)
(* POST /api/auth/register: AuthController.register, AuthService.register  *)
(* and UserService.createUser up to the answer of getUserByUsername.       *)
(***************************************************************************)
Register(c) ==
    /\ out = {}
    /\ req[c].pc = "idle"
    /\ \E in \in Inputs("register") :
         LET r == Request(Route("authRoutes", "register"), "createUser.lookup",
                          in.username, in.password, 0, <<>>, {}, <<>>,
                          UserService_getUserByUsername(in.username), FALSE)
             error == createUserLookup(in.username, in.password)
         IN  IF error # NoErr
             THEN /\ out' = Answered(c, r, errorHandler(registerCatch(error)))
                  /\ UNCHANGED req
             ELSE /\ req' = [req EXCEPT ![c] = [r EXCEPT !.pc = "createUser.save"]]
                  /\ out' = {}
    /\ UNCHANGED <<store, now, held, call>>

\* a saveUser that links the new user to role 2
defaultRoleAdmin == (CHOOSE r \in roles : r.name = "admin").id

\* the role_id saveUser inserts into user_roles: [userId, 1]
defaultRole == 1

\* a store that hands out the smallest id no row has
nextvalSmallestFree ==
    CHOOSE i \in 1..(MaxUsers + 1) :
        /\ RowsById(i) = {}
        /\ \A j \in 1..(i - 1) : RowsById(j) # {}

\* the id INSERT INTO users ... RETURNING id gives a new row: users.id is
\* SERIAL, the next value of a sequence that never goes back
nextval == nextId

(***************************************************************************)
(* The rest of UserService.createUser: hashPassword, new User, and         *)
(* DbService.saveUser (BEGIN, INSERT users, INSERT user_roles, COMMIT).    *)
(***************************************************************************)
CreateUserSave(c) ==
    LET r == req[c]
        id == nextval
        user == User(id, r.username, hashPassword(r.password), FALSE, {})
        row == [id |-> id, username |-> user.username,
                password |-> user.password, is_banned |-> user.isBanned]
        fkOk == \E role \in roles : role.id = defaultRole
        error == Err("Error", "Error creating new user: error: insert or update "
                     \o "on table user_roles violates foreign key constraint")
    IN  /\ out = {}
        /\ r.pc = "createUser.save"
        /\ nextId <= MaxUsers
        /\ nextId' = nextId + 1
        /\ req' = [req EXCEPT ![c] = Idle]
        /\ IF fkOk
           THEN /\ users' = users \cup {row}
                /\ user_roles' = user_roles \cup {<<id, defaultRole>>}
                /\ out' = Answered(c, r,
                     IF r.route.op = "register"
                     THEN Response(201, "", "User registered successfully", {},
                                   {getSafeObject(user)})
                     ELSE Response(201, "", "User created successfully", {}, {}))
           ELSE /\ out' = Answered(c, r,
                      IF r.route.op = "register"
                      THEN errorHandler(registerCatch(error))
                      ELSE handlerError(r.route, "Error creating user "
                                        \o ErrToString(error), error))
                /\ UNCHANGED <<users, user_roles>>
        /\ UNCHANGED <<roles, now, held, call>>

(***************************************************************************)
(* POST /api/auth/login: up to the answer of getUserByUsername and the ban *)
(* check of authenticateUser.                                              *)
(***************************************************************************)
Login(c) ==
    /\ out = {}
    /\ req[c].pc = "idle"
    /\ \E in \in Inputs("login") :
         LET rows == getUserByUsername(in.username)
             picks == IF rows = {} THEN {{}} ELSE {{u} : u \in rows}
         IN  \E picked \in picks :
               LET result == authenticateUser(picked, in.password)
                   r == Request(Route("authRoutes", "login"), "login.lookup",
                                in.username, in.password, 0, <<>>, {}, <<>>,
                                picked,
                                \E row \in users :
                                    /\ row.username = in.username
                                    /\ row.password = hashPassword(in.password)
                                    /\ ~row.is_banned)
               IN  IF result.verified
                   THEN /\ req' = [req EXCEPT ![c] = [r EXCEPT !.pc = "login.verify"]]
                        /\ out' = {}
                   ELSE /\ out' = Answered(c, r, login(result, now))
                        /\ UNCHANGED req
    /\ UNCHANGED <<store, now, held, call>>

\* bcrypt.compare has answered: the rest of authenticateUser and of login
LoginVerify(c) ==
    LET r == req[c]
        result == authenticateUser(r.found, r.password)
        resp == login(result, now)
    IN  /\ out = {}
        /\ r.pc = "login.verify"
        /\ req' = [req EXCEPT ![c] = Idle]
        /\ out' = Answered(c, [r EXCEPT !.verified = result.verified], resp)
        /\ UNCHANGED <<store, now, held, call>>

(***************************************************************************)
(* A request to a protected route: the chain in front of the handler, run  *)
(* against the store as authenticate's getUserById finds it, and the       *)
(* handler up to its first store access.                                   *)
(***************************************************************************)
AdminRequest(c) ==
    /\ out = {}
    /\ req[c].pc = "idle"
    /\ \E route \in AdminRoutes, header \in Headers(c) :
         LET ran == RunChain(Chain(route), 1, {}, <<>>, header, now)
             r == Request(route, "chain", "", "", 0, header, ran.user,
                          ran.passed, {}, FALSE)
         IN  IF ran.handler
             THEN \* the handler reads its parameters
                  /\ \E in \in Inputs(route.op) :
                       req' = [req EXCEPT ![c] =
                                 [r EXCEPT !.username = in.username,
                                           !.password = in.password,
                                           !.id = in.id,
                                           !.pc = IF route.op = "createUser"
                                                  THEN "createUser.lookup"
                                                  ELSE "handler"]]
                  /\ out' = {}
             ELSE /\ out' = Answered(c, r, errorHandler(ran.err))
                  /\ UNCHANGED req
    /\ UNCHANGED <<store, now, held, call>>

\* POST /api/users: UserService.createUser up to the answer of
\* getUserByUsername
CreateUserLookup(c) ==
    LET r == req[c]
        error == createUserLookup(r.username, r.password)
        found == UserService_getUserByUsername(r.username)
    IN  /\ out = {}
        /\ r.pc = "createUser.lookup"
        /\ IF error # NoErr
           THEN /\ out' = Answered(c, [r EXCEPT !.found = found],
                                   handlerError(r.route, "Error creating user "
                                                \o ErrToString(error), error))
                /\ req' = [req EXCEPT ![c] = Idle]
           ELSE /\ req' = [req EXCEPT ![c].pc = "createUser.save"]
                /\ out' = {}
        /\ UNCHANGED <<store, now, held, call>>

\* what DbService throws, wrapped by UserService, when no row has the id
WrappedNotFound(prefix) ==
    Err("Error", prefix \o ErrToString(NotFoundError("User not found")))

\* DbService.getBanStatus: [err, banned]
getBanStatus(id) ==
    IF RowsById(id) = {}
    THEN [err |-> NotFoundError("User not found"), banned |-> {}]
    ELSE [err |-> NoErr, banned |-> {row.is_banned : row \in RowsById(id)}]

\* UserService.getUserBanStatus: whatever getBanStatus throws is wrapped
getUserBanStatus(id) ==
    IF getBanStatus(id).err # NoErr
    THEN [err |-> Err("Error", "Error fetching ban status of user with ID "
                      \o ToString(id) \o ": " \o ErrToString(getBanStatus(id).err)),
          banned |-> {}]
    ELSE getBanStatus(id)

\* DELETE /api/users/:id: DbService.deleteUser (BEGIN, DELETE user_roles,
\* DELETE users, COMMIT) and the handler's answer
DeleteUser(c) ==
    LET r == req[c]
        rows == RowsById(r.id)
        error == WrappedNotFound("Error deleting user: ")
    IN  /\ out = {}
        /\ r.pc = "handler"
        /\ r.route.op = "deleteUser"
        /\ user_roles' = {ur \in user_roles : ur[1] # r.id}
        /\ users' = users \ rows
        /\ req' = [req EXCEPT ![c] = Idle]
        /\ out' = Answered(c, r,
                    IF rows = {}
                    THEN handlerError(r.route, "Error deleting user: "
                                      \o ErrToString(error), error)
                    ELSE Response(200, "", "User deleted successfully", {}, {}))
        /\ UNCHANGED <<roles, nextId, now, held, call>>

\* PUT /api/users/:id/ban: UPDATE users SET is_banned = true
BanUser(c) ==
    LET r == req[c]
        rows == RowsById(r.id)
        error == WrappedNotFound("Error trying to ban user with ID "
                                 \o ToString(r.id) \o ": ")
    IN  /\ out = {}
        /\ r.pc = "handler"
        /\ r.route.op = "banUser"
        /\ users' = (users \ rows) \cup {[u EXCEPT !.is_banned = TRUE] : u \in rows}
        /\ req' = [req EXCEPT ![c] = Idle]
        /\ out' = Answered(c, r,
                    IF rows = {}
                    THEN handlerError(r.route, "Error banning user: "
                                      \o error.message, error)
                    ELSE Response(200, "", "User banned successfully", {}, {}))
        /\ UNCHANGED <<user_roles, roles, nextId, now, held, call>>

\* PUT /api/users/:id/unban: UPDATE users SET is_banned = false
UnbanUser(c) ==
    LET r == req[c]
        rows == RowsById(r.id)
        error == WrappedNotFound("Error trying to unban user with ID "
                                 \o ToString(r.id) \o ": ")
    IN  /\ out = {}
        /\ r.pc = "handler"
        /\ r.route.op = "unbanUser"
        /\ users' = (users \ rows) \cup {[u EXCEPT !.is_banned = FALSE] : u \in rows}
        /\ req' = [req EXCEPT ![c] = Idle]
        /\ out' = Answered(c, r,
                    IF rows = {}
                    THEN handlerError(r.route, "Error unbanning user: "
                                      \o error.message, error)
                    ELSE Response(200, "", "User unbanned successfully", {}, {}))
        /\ UNCHANGED <<user_roles, roles, nextId, now, held, call>>

\* GET /api/users: the SELECT of DbService.getAllUsers is not valid SQL
\* ("u.* array_agg"), so the query fails, getAllUsers logs the failure and
\* returns undefined, and UserService.getAllUsers throws on users.map
GetAllUsers(c) ==
    LET r == req[c]
        error == Err("Error", "Error fetching all users: TypeError: Cannot read "
                              \o "properties of undefined (reading 'map')")
    IN  /\ out = {}
        /\ r.pc = "handler"
        /\ r.route.op = "getAllUsers"
        /\ req' = [req EXCEPT ![c] = Idle]
        /\ out' = Answered(c, r, handlerError(r.route, "", error))
        /\ UNCHANGED <<store, now, held, call>>

\* the answer leaves the server, and a client that was sent a token keeps
\* it
Deliver ==
    /\ out # {}
    /\ out' = {}
    /\ held' = [c \in Clients |->
                   IF c \in Admins
                   THEN held[c] \cup UNION {a.resp.token : a \in {b \in out : b.client = c}}
                   ELSE held[c]]
    /\ UNCHANGED <<store, now, req, call>>

Next ==
    \/ Deliver
    \/ \E c \in Clients :
        \/ Register(c)
        \/ CreateUserSave(c)
        \/ Login(c)
        \/ LoginVerify(c)
    \/ \E c \in Admins :
        \/ AdminRequest(c)
        \/ CreateUserLookup(c)
        \/ DeleteUser(c)
        \/ BanUser(c)
        \/ UnbanUser(c)
        \/ GetAllUsers(c)

Spec == Init /\ [][Next]_vars

(***************************************************************************)
(* The public routes alone: no user is ever banned or deleted.             *)
(***************************************************************************)
NextPublic ==
    \/ Deliver
    \/ \E c \in Clients :
        \/ Register(c)
        \/ CreateUserSave(c)
        \/ Login(c)
        \/ LoginVerify(c)

SpecPublic == Init /\ [][NextPublic]_vars

(***************************************************************************)
(* Token validation and the routes of a user's own account.                *)
(***************************************************************************)
\* validateToken that checks the user exists and not whether it is banned
validateTokenIgnoringBan(userId) ==
    LET user == UserService_getUserById(userId)
    IN  IF user = {}
        THEN [err |-> NotFoundError("User not found"), message |-> "", user |-> {}]
        ELSE [err |-> NoErr, message |-> "", user |-> user]

\* AuthService.validateToken against the current store: [err, message, user]
validateToken(userId) ==
    LET user == UserService_getUserById(userId)
    IN  IF user = {}
        THEN [err |-> NotFoundError("User not found"), message |-> "", user |-> {}]
        ELSE IF \E u \in user : u.isBanned
        THEN [err |-> ForbiddenError("User is banned"), message |-> "", user |-> {}]
        ELSE [err |-> NoErr, message |-> "", user |-> user]

\* validateTokenWithUsername that never compares the usernames
validateTokenAnyUsername(token, username, t) ==
    IF token = {} \/ username = ""
    THEN [err |-> ValidationError("Token and username are required"),
          message |-> "", user |-> {}]
    ELSE
      LET v == verifyToken(CHOOSE x \in token : TRUE, t)
      IN  IF v.err # NoErr
          THEN [err |-> AuthenticationError("Invalid or expired token"),
                message |-> "", user |-> {}]
          ELSE
            LET decoded == CHOOSE d \in v.decoded : TRUE
            IN  [validateToken(decoded.userId) EXCEPT
                    !.message = IF @ = "" /\ validateToken(decoded.userId).err = NoErr
                                THEN "Token is valid" ELSE @]

\* AuthService.validateTokenWithUsername; token is {} for an empty string,
\* username "" for a missing or empty one
validateTokenWithUsername(token, username, t) ==
    IF token = {} \/ username = ""
    THEN [err |-> ValidationError("Token and username are required"),
          message |-> "", user |-> {}]
    ELSE
      LET v == verifyToken(CHOOSE x \in token : TRUE, t)
      IN  IF v.err # NoErr
          THEN [err |-> AuthenticationError("Invalid or expired token"),
                message |-> "", user |-> {}]
          ELSE
            LET decoded == CHOOSE d \in v.decoded : TRUE
            IN  IF decoded.username # username
                THEN [err |-> AuthenticationError("Username mismatch"),
                      message |-> "", user |-> {}]
                ELSE [validateToken(decoded.userId) EXCEPT
                         !.message = IF @ = "" /\ validateToken(decoded.userId).err = NoErr
                                     THEN "Token is valid" ELSE @]

\* validate answering every failure as an authentication failure
validateAlwaysUnauthorized(header, username, t) ==
    IF header = <<>> \/ header[1] # "Bearer"
    THEN errorHandler(AuthenticationError("No token provided or invalid format"))
    ELSE
      LET token == IF Len(header) >= 2 THEN {header[2]} ELSE {}
          result == validateTokenWithUsername(token, username, t)
      IN  IF result.err # NoErr
          THEN errorHandler(AuthenticationError(result.err.message))
          ELSE Response(200, "", result.message, {}, result.user)

\* AuthController.validate.  A header is <<>> (absent), <<scheme, token>>, or
\* <<"Bearer">>: "Bearer " with nothing where the token should be
validate(header, username, t) ==
    IF header = <<>> \/ header[1] # "Bearer"
    THEN errorHandler(AuthenticationError("No token provided or invalid format"))
    ELSE
      LET token == IF Len(header) >= 2 THEN {header[2]} ELSE {}
          result == validateTokenWithUsername(token, username, t)
      IN  IF result.err # NoErr THEN errorHandler(result.err)
          ELSE Response(200, "", result.message, {}, result.user)

\* AuthController.getCurrentUser
getCurrentUser(reqUser) ==
    LET result == validateToken((CHOOSE u \in reqUser : TRUE).userId)
    IN  IF result.err # NoErr THEN errorHandler(result.err)
        ELSE Response(200, "", "", {}, result.user)

\* GET /api/users/:id letting every authenticated caller go on
getUserByIdUnguarded(route, reqUser, id) == NoResponse

\* the check GET /api/users/:id makes before it reads the user: NoResponse
\* when the caller may go on
getUserByIdGuard(route, reqUser, id) ==
    LET caller == CHOOSE u \in reqUser : TRUE
    IN  IF "admin" \notin caller.roles /\ caller.userId # id
        THEN IF route.table = "app"
             THEN Response(403, "", "Forbidden - You can only access your won user data",
                           {}, {})
             ELSE errorHandler(ForbiddenError("You can only access your own user data"))
        ELSE NoResponse

\* the rest of GET /api/users/:id, once getUserById has answered
getUserByIdAnswer(route, id) ==
    LET user == UserService_getUserById(id)
    IN  IF user = {}
        THEN IF route.table = "app"
             THEN Response(404, "", "User not found", {}, {})
             ELSE errorHandler(NotFoundError("User not found"))
        ELSE Response(200, "", "", {}, user)

\* the tokens a caller may present: those the server has handed out, and
\* ones it never would accept
TokensAround == (UNION {held[c] : c \in Clients})
                    \cup {ForgedToken, ExpiredToken, MalformedToken}

ValidateHeaders ==
    {<<>>, <<"Bearer">>} \cup {<<"Bearer", t>> : t \in TokensAround}
                         \cup {<<"Basic", t>> : t \in TokensAround}

\* POST /api/auth/validate
Validate(c) ==
    /\ out = {}
    /\ req[c].pc = "idle"
    /\ \E header \in ValidateHeaders, username \in Usernames \cup {""} :
         LET r == Request(ValidateRoute, "handler", username, "", 0, header,
                          {}, <<>>, {}, FALSE)
         IN  out' = Answered(c, r, validate(header, username, now))
    /\ UNCHANGED <<store, now, req, held, call>>

\* GET /api/auth/me and GET /api/users/:id: the chain in front of the
\* handler and the handler up to its first store access
AccountRequest(c) ==
    /\ out = {}
    /\ req[c].pc = "idle"
    /\ \E route \in AccountRoutes, token \in TokensAround \ {MalformedToken} :
         LET header == <<"Bearer", token>>
             ran == RunChain(Chain(route), 1, {}, <<>>, header, now)
             r == Request(route, "chain", "", "", 0, header, ran.user,
                          ran.passed, {}, FALSE)
         IN  IF ~ran.handler
             THEN /\ out' = Answered(c, r, errorHandler(ran.err))
                  /\ UNCHANGED req
             ELSE IF route = MeRoute
             THEN /\ req' = [req EXCEPT ![c] = [r EXCEPT !.pc = "handler"]]
                  /\ out' = {}
             ELSE \E id \in 1..MaxUsers :
                    LET guard == getUserByIdGuard(route, ran.user, id)
                    IN  IF guard # NoResponse
                        THEN /\ out' = Answered(c, [r EXCEPT !.pc = "guard", !.id = id],
                                                guard)
                             /\ UNCHANGED req
                        ELSE /\ req' = [req EXCEPT ![c] =
                                          [r EXCEPT !.pc = "handler", !.id = id]]
                             /\ out' = {}
    /\ UNCHANGED <<store, now, held, call>>

\* GET /api/auth/me: validateToken has read the user
Me(c) ==
    LET r == req[c]
    IN  /\ out = {}
        /\ r.pc = "handler"
        /\ r.route = MeRoute
        /\ req' = [req EXCEPT ![c] = Idle]
        /\ out' = Answered(c, r, getCurrentUser(r.user))
        /\ UNCHANGED <<store, now, held, call>>

\* GET /api/users/:id: getUserById has read the user
GetUser(c) ==
    LET r == req[c]
    IN  /\ out = {}
        /\ r.pc = "handler"
        /\ r.route \in GetUserRoutes
        /\ req' = [req EXCEPT ![c] = Idle]
        /\ out' = Answered(c, r, getUserByIdAnswer(r.route, r.id))
        /\ UNCHANGED <<store, now, held, call>>

\* one client works as in Spec; the other validates tokens and reads
\* accounts with the tokens the first was given
NextAccount ==
    \/ Deliver
    \/ \E c \in Admins :
        \/ Register(c)
        \/ CreateUserSave(c)
        \/ Login(c)
        \/ LoginVerify(c)
        \/ AdminRequest(c)
        \/ CreateUserLookup(c)
        \/ DeleteUser(c)
        \/ BanUser(c)
        \/ UnbanUser(c)
        \/ GetAllUsers(c)
    \/ \E c \in Clients \ Admins :
        \/ Validate(c)
        \/ AccountRequest(c)
        \/ Me(c)
        \/ GetUser(c)

SpecAccount == Init /\ [][NextAccount]_vars

(***************************************************************************)
(* DbService.saveUser and DbService.deleteUser statement by statement.     *)
(* users, user_roles and nextId are the committed store, which is all that *)
(* another connection reads (READ COMMITTED).  The writes of an open       *)
(* transaction wait in the connection until COMMIT applies them or         *)
(* ROLLBACK drops them; a write outside a transaction is applied at once.  *)
(* A statement may fail with an error of the store, the connection staying *)
(* usable; the sequence behind users.id is not rolled back.                *)
(***************************************************************************)
Tx(open, insUsers, insRoles, delRoles, delUsers) ==
    [open |-> open, insUsers |-> insUsers, insRoles |-> insRoles,
     delRoles |-> delRoles, delUsers |-> delUsers]

NoTx == Tx(FALSE, {}, {}, {}, {})

\* a connection that sends BEGIN and opens no transaction
BeginNothing(tx) == tx

\* client.query("BEGIN")
Begin(tx) == [tx EXCEPT !.open = TRUE]

\* the writes w of one statement on a connection: kept when a transaction
\* is open
Buffer(tx, w) ==
    IF tx.open
    THEN Tx(TRUE, tx.insUsers \cup w.insUsers, tx.insRoles \cup w.insRoles,
            tx.delRoles \cup w.delRoles, tx.delUsers \cup w.delUsers)
    ELSE tx

\* what a statement or a COMMIT makes of the committed tables
AppliedUsers(w) == (users \ w.delUsers) \cup w.insUsers
AppliedRoles(w) == (user_roles \ w.delRoles) \cup w.insRoles

\* the writes that reach the committed tables when a statement runs
Direct(tx, w) == IF tx.open THEN NoTx ELSE w

\* a catch block that keeps what the transaction wrote
RollbackKeeping(tx) == tx

\* client.query("ROLLBACK"): the writes that reach the committed tables
Rollback(tx) == NoTx

\* deleteUser reporting success whatever DELETE returned
deleteResultAlwaysTrue(rows) == NoErr

\* DbService.deleteUser after COMMIT: result.rows.length === 0
deleteResult(rows) ==
    IF rows = {} THEN NotFoundError("User not found") ELSE NoErr

StoreError(statement) == Err("error", statement \o " failed")

DbCall(op, pc, id, tx, err, deleted) ==
    [op |-> op, pc |-> pc, id |-> id, tx |-> tx, err |-> err, deleted |-> deleted]

IdleCall == DbCall("", "idle", 0, NoTx, NoErr, {})

\* the rows another connection has deleted and not yet committed are locked
LockedRoles(k) == UNION {call[j].tx.delRoles : j \in Connections \ {k}}
LockedUsers(k) == UNION {call[j].tx.delUsers : j \in Connections \ {k}}

InitTx ==
    /\ users = {RootRow}
    /\ user_roles = {<<1, 1>>, <<1, 2>>}
    /\ roles = {[id |-> 1, name |-> "user"], [id |-> 2, name |-> "admin"]}
    /\ nextId = 2
    /\ now = 0
    /\ req = [c \in Clients |-> Idle]
    /\ held = [c \in Clients |-> {}]
    /\ out = {}
    /\ call = [k \in Connections |-> IdleCall]

\* saveUser: BEGIN
SaveBegin(k) ==
    /\ out = {}
    /\ call[k].pc = "idle"
    /\ nextId <= MaxUsers
    /\ \E fails \in BOOLEAN :
         call' = [call EXCEPT ![k] =
                    IF fails
                    THEN DbCall("saveUser", "catch", 0, NoTx, StoreError("BEGIN"), {})
                    ELSE DbCall("saveUser", "save.users", 0, Begin(NoTx), NoErr, {})]
    /\ UNCHANGED <<store, now, req, held, out>>

\* saveUser: INSERT INTO users ... RETURNING id
SaveInsertUsers(k) ==
    LET c == call[k]
        row == [id |-> nextId, username |-> "a", password |-> hashPassword("p"),
                is_banned |-> FALSE]
        w == Tx(FALSE, {row}, {}, {}, {})
    IN  /\ out = {}
        /\ c.pc = "save.users"
        /\ nextId <= MaxUsers
        /\ \E fails \in BOOLEAN :
             IF fails
             THEN /\ call' = [call EXCEPT ![k].pc = "catch",
                                          ![k].err = StoreError("INSERT INTO users")]
                  /\ UNCHANGED <<users, nextId>>
             ELSE /\ call' = [call EXCEPT ![k].pc = "save.roles", ![k].id = nextId,
                                          ![k].tx = Buffer(c.tx, w)]
                  /\ users' = AppliedUsers(Direct(c.tx, w))
                  /\ nextId' = nextId + 1
        /\ UNCHANGED <<user_roles, roles, now, req, held, out>>

\* saveUser: INSERT INTO user_roles (user_id, role_id) VALUES (id, 1)
SaveInsertRoles(k) ==
    LET c == call[k]
        w == Tx(FALSE, {}, {<<c.id, 1>>}, {}, {})
        fkOk == /\ \E role \in roles : role.id = 1
                /\ \E row \in users \cup c.tx.insUsers : row.id = c.id
    IN  /\ out = {}
        /\ c.pc = "save.roles"
        /\ \E fails \in BOOLEAN :
             IF fails \/ ~fkOk
             THEN /\ call' = [call EXCEPT ![k].pc = "catch",
                                          ![k].err = StoreError("INSERT INTO user_roles")]
                  /\ UNCHANGED user_roles
             ELSE /\ call' = [call EXCEPT ![k].pc = "save.commit",
                                          ![k].tx = Buffer(c.tx, w)]
                  /\ user_roles' = AppliedRoles(Direct(c.tx, w))
        /\ UNCHANGED <<users, roles, nextId, now, req, held, out>>

\* saveUser: COMMIT and return userId
SaveCommit(k) ==
    LET c == call[k]
    IN  /\ out = {}
        /\ c.pc = "save.commit"
        /\ \E fails \in BOOLEAN :
             IF fails
             THEN /\ call' = [call EXCEPT ![k].pc = "catch",
                                          ![k].err = StoreError("COMMIT")]
                  /\ UNCHANGED <<users, user_roles, out>>
             ELSE /\ users' = AppliedUsers(c.tx)
                  /\ user_roles' = AppliedRoles(c.tx)
                  /\ call' = [call EXCEPT ![k] = IdleCall]
                  /\ out' = {[c EXCEPT !.pc = "returned", !.tx = NoTx]}
        /\ UNCHANGED <<roles, nextId, now, req, held>>

\* deleteUser: BEGIN
DeleteBegin(k) ==
    /\ out = {}
    /\ call[k].pc = "idle"
    /\ \E id \in 1..MaxUsers, fails \in BOOLEAN :
         call' = [call EXCEPT ![k] =
                    IF fails
                    THEN DbCall("deleteUser", "catch", id, NoTx, StoreError("BEGIN"), {})
                    ELSE DbCall("deleteUser", "delete.roles", id, Begin(NoTx), NoErr, {})]
    /\ UNCHANGED <<store, now, req, held, out>>

\* deleteUser: DELETE FROM user_roles WHERE user_id = id
DeleteRoles(k) ==
    LET c == call[k]
        links == {ur \in user_roles : ur[1] = c.id}
        w == Tx(FALSE, {}, {}, links, {})
    IN  /\ out = {}
        /\ c.pc = "delete.roles"
        /\ links \cap LockedRoles(k) = {}
        /\ \E fails \in BOOLEAN :
             IF fails
             THEN /\ call' = [call EXCEPT ![k].pc = "catch",
                                          ![k].err = StoreError("DELETE FROM user_roles")]
                  /\ UNCHANGED user_roles
             ELSE /\ call' = [call EXCEPT ![k].pc = "delete.users",
                                          ![k].tx = Buffer(c.tx, w)]
                  /\ user_roles' = AppliedRoles(Direct(c.tx, w))
        /\ UNCHANGED <<users, roles, nextId, now, req, held, out>>

\* deleteUser: DELETE FROM users WHERE id = id RETURNING id; the foreign key
\* of user_roles forbids it while a link to the row is left
DeleteUsers(k) ==
    LET c == call[k]
        rows == RowsById(c.id)
        w == Tx(FALSE, {}, {}, {}, rows)
        fkOk == rows = {} \/ {ur \in user_roles \ c.tx.delRoles : ur[1] = c.id} = {}
    IN  /\ out = {}
        /\ c.pc = "delete.users"
        /\ rows \cap LockedUsers(k) = {}
        /\ \E fails \in BOOLEAN :
             IF fails \/ ~fkOk
             THEN /\ call' = [call EXCEPT ![k].pc = "catch",
                                          ![k].err = StoreError("DELETE FROM users")]
                  /\ UNCHANGED users
             ELSE /\ call' = [call EXCEPT ![k].pc = "delete.commit",
                                          ![k].deleted = rows,
                                          ![k].tx = Buffer(c.tx, w)]
                  /\ users' = AppliedUsers(Direct(c.tx, w))
        /\ UNCHANGED <<user_roles, roles, nextId, now, req, held, out>>

\* deleteUser: COMMIT, then NotFoundError when DELETE returned no row
DeleteCommit(k) ==
    LET c == call[k]
    IN  /\ out = {}
        /\ c.pc = "delete.commit"
        /\ \E fails \in BOOLEAN :
             IF fails
             THEN /\ call' = [call EXCEPT ![k].pc = "catch",
                                          ![k].err = StoreError("COMMIT")]
                  /\ UNCHANGED <<users, user_roles, out>>
             ELSE /\ users' = AppliedUsers(c.tx)
                  /\ user_roles' = AppliedRoles(c.tx)
                  /\ IF deleteResult(c.deleted) # NoErr
                     THEN /\ call' = [call EXCEPT ![k].pc = "catch", ![k].tx = NoTx,
                                                  ![k].err = deleteResult(c.deleted)]
                          /\ out' = out
                     ELSE /\ call' = [call EXCEPT ![k] = IdleCall]
                          /\ out' = {[c EXCEPT !.pc = "returned", !.tx = NoTx]}
        /\ UNCHANGED <<roles, nextId, now, req, held>>

\* the catch block of saveUser and deleteUser: ROLLBACK, then throw error
Catch(k) ==
    LET c == call[k]
    IN  /\ out = {}
        /\ c.pc = "catch"
        /\ users' = AppliedUsers(Rollback(c.tx))
        /\ user_roles' = AppliedRoles(Rollback(c.tx))
        /\ call' = [call EXCEPT ![k] = IdleCall]
        /\ out' = {[c EXCEPT !.pc = "thrown", !.tx = NoTx]}
        /\ UNCHANGED <<roles, nextId, now, req, held>>

\* getUserByUsername or getUserById on another connection
Read ==
    /\ out = {}
    /\ \E found \in {getUserByUsername(u) : u \in Usernames}
                       \cup {getUserById(i) : i \in 1..MaxUsers} :
         out' = {[op |-> "read", pc |-> "returned", found |-> found]}
    /\ UNCHANGED <<store, now, req, held, call>>

\* the caller has its result
Return ==
    /\ out # {}
    /\ out' = {}
    /\ UNCHANGED <<store, now, req, held, call>>

NextTx ==
    \/ Read
    \/ Return
    \/ \E k \in Connections :
        \/ SaveBegin(k)
        \/ SaveInsertUsers(k)
        \/ SaveInsertRoles(k)
        \/ SaveCommit(k)
        \/ DeleteBegin(k)
        \/ DeleteRoles(k)
        \/ DeleteUsers(k)
        \/ DeleteCommit(k)
        \/ Catch(k)

SpecTx == InitTx /\ [][NextTx]_vars

(***************************************************************************)
(* The control flow of every DbService operation that takes a client from  *)
(* the pool: pool.connect() before the try block, the statements of the    *)
(* try block, the catch block, the finally block.  call[k] is the frame of *)
(* the operation that runs on pool client k.                               *)
(***************************************************************************)
Operations == {"saveUser", "getUserById", "getUserByUsername", "getAllUsers", "deleteUser", "banUser", "unbanUser", "getBanStatus"}

\* the statements of the try block, in order
Statements(op) ==
    CASE op = "saveUser" ->
           <<"BEGIN", "INSERT INTO users", "INSERT INTO user_roles", "COMMIT">>
      [] op = "deleteUser" ->
           <<"BEGIN", "DELETE FROM user_roles", "DELETE FROM users", "COMMIT">>
      [] op \in {"banUser", "unbanUser"} -> <<"UPDATE users">>
      [] op = "getBanStatus" -> <<"SELECT is_banned">>
      [] OTHER -> <<"SELECT u.*">>

\* the SELECT of getAllUsers lacks the comma after u.* and fails every time
QueryFails(op) == IF op = "getAllUsers" THEN {TRUE} ELSE BOOLEAN

\* if (result.rows.length === 0) throw new NotFoundError("User not found")
ThrowsNotFound(op) == op \in {"deleteUser", "banUser", "unbanUser", "getBanStatus"}

\* the catch block starts with client.query("ROLLBACK")
RollsBack(op) == op \in {"saveUser", "deleteUser"}

\* how the catch block ends: every one ends with throw error, but for the
\* one of getAllUsers, which only logs
catchExit(op) == IF op = "getAllUsers" THEN "return" ELSE "throw"

\* a finally block that releases only after the try block completed
finallyReleaseOnReturn(frame) ==
    IF frame.exit = "return" /\ ~frame.failed
    THEN [frame EXCEPT !.client = "pooled", !.releases = @ + 1]
    ELSE frame

\* finally { client.release(); }
finallyRelease(frame) ==
    [frame EXCEPT !.client = "pooled", !.releases = @ + 1]

PoolCall(op, pc, stmt, client, releases, failed, err, exit) ==
    [op |-> op, pc |-> pc, stmt |-> stmt, client |-> client, releases |-> releases,
     failed |-> failed, err |-> err, exit |-> exit]

IdlePoolCall == PoolCall("", "idle", 0, "pooled", 0, FALSE, NoErr, "")

\* the pool clients that are checked out
CheckedOut == {k \in Connections : call[k].client = "out"}

InitPool ==
    /\ users = {RootRow}
    /\ user_roles = {<<1, 1>>, <<1, 2>>}
    /\ roles = {[id |-> 1, name |-> "user"], [id |-> 2, name |-> "admin"]}
    /\ nextId = 2
    /\ now = 0
    /\ req = [c \in Clients |-> Idle]
    /\ held = [c \in Clients |-> {}]
    /\ out = {}
    /\ call = [k \in Connections |-> IdlePoolCall]

\* const client = await pool.connect(): outside the try block, so when it
\* rejects the operation throws with no client taken
Connect(k) ==
    /\ out = {}
    /\ call[k].pc = "idle"
    /\ \E op \in Operations, fails \in BOOLEAN :
         call' = [call EXCEPT ![k] =
                    IF fails
                    THEN PoolCall(op, "exit", 0, "pooled", 0, FALSE,
                                  StoreError("connect"), "throw")
                    ELSE PoolCall(op, "try", 1, "out", 0, FALSE, NoErr, "")]
    /\ UNCHANGED <<store, now, req, held, out>>

\* one statement of the try block; after the last one the check of
\* result.rows.length and the return
Query(k) ==
    LET c == call[k]
        last == c.stmt = Len(Statements(c.op))
    IN  /\ out = {}
        /\ c.pc = "try"
        /\ \E fails \in QueryFails(c.op), none \in BOOLEAN :
             call' = [call EXCEPT ![k] =
                        IF fails
                        THEN [c EXCEPT !.pc = "catch", !.failed = TRUE,
                                       !.err = StoreError(Statements(c.op)[c.stmt])]
                        ELSE IF ~last
                        THEN [c EXCEPT !.stmt = @ + 1]
                        ELSE IF none /\ ThrowsNotFound(c.op)
                        THEN [c EXCEPT !.pc = "catch",
                                       !.err = NotFoundError("User not found")]
                        ELSE [c EXCEPT !.pc = "finally", !.exit = "return"]]
        /\ UNCHANGED <<store, now, req, held, out>>

\* the catch block: ROLLBACK where there is one, whose own failure leaves
\* the block at once with that error; console.error; throw error
CatchBlock(k) ==
    LET c == call[k]
    IN  /\ out = {}
        /\ c.pc = "catch"
        /\ \E fails \in BOOLEAN :
             call' = [call EXCEPT ![k] =
                        IF fails /\ RollsBack(c.op)
                        THEN [c EXCEPT !.pc = "finally", !.exit = "throw",
                                       !.failed = TRUE,
                                       !.err = StoreError("ROLLBACK")]
                        ELSE [c EXCEPT !.pc = "finally", !.exit = catchExit(c.op),
                                       !.err = IF catchExit(c.op) = "throw"
                                               THEN @ ELSE NoErr]]
        /\ UNCHANGED <<store, now, req, held, out>>

\* the finally block
FinallyBlock(k) ==
    /\ out = {}
    /\ call[k].pc = "finally"
    /\ call' = [call EXCEPT ![k] = [finallyRelease(call[k]) EXCEPT !.pc = "exit"]]
    /\ UNCHANGED <<store, now, req, held, out>>

\* the operation returns or throws to its caller
Exit(k) ==
    /\ out = {}
    /\ call[k].pc = "exit"
    /\ out' = {call[k]}
    /\ call' = [call EXCEPT ![k] = [IdlePoolCall EXCEPT !.client = call[k].client]]
    /\ UNCHANGED <<store, now, req, held>>

NextPool ==
    \/ Return
    \/ \E k \in Connections :
        \/ Connect(k)
        \/ Query(k)
        \/ CatchBlock(k)
        \/ FinallyBlock(k)
        \/ Exit(k)

SpecPool == InitPool /\ [][NextPool]_vars

(***************************************************************************)
(* DbService.init, run by the constructor of every DbService instance.     *)
(* The modules that create an instance are loaded at start-up, so their    *)
(* init runs interleave at each await.  roles.id is the primary key of the *)
(* roles table.  call[i] is the init run of instance i.                    *)
(***************************************************************************)
Instances == {"app", "authMiddleware", "authRoutes", "userRoutes"}

DefaultRoles == {[id |-> 1, name |-> "user"], [id |-> 2, name |-> "admin"]}

\* DbService.countRoles: SELECT COUNT(*) FROM roles
countRoles == Cardinality(roles)

\* an init that never inserts
needsRolesNever(roleCount) == FALSE

\* init: if (roleCount === 0)
needsRoles(roleCount) == roleCount = 0

\* INSERT INTO roles (id, name) VALUES (1, "user"), (2, "admin"): one
\* statement, rejected as a whole when an id is already in the table
InsertRolesError ==
    IF \E r \in roles, d \in DefaultRoles : r.id = d.id
    THEN Err("error", "duplicate key value violates unique constraint")
    ELSE NoErr

\* init's catch block logs the error and init resolves; the .catch of the
\* constructor handles what init rejects with
initCatch(error) == NoErr

InitCall(pc, roleCount, caught, raised) ==
    [pc |-> pc, roleCount |-> roleCount, caught |-> caught, raised |-> raised]

InitRoles ==
    /\ users = {}
    /\ user_roles = {}
    /\ roles = {}
    /\ nextId = 1
    /\ now = 0
    /\ req = [c \in Clients |-> Idle]
    /\ held = [c \in Clients |-> {}]
    /\ out = {}
    /\ call = [i \in Instances |-> InitCall("new", 0, NoErr, NoErr)]

\* new DbService(): this.init() runs up to its first await
Construct(i) ==
    /\ call[i].pc \in {"new", "done"}
    /\ call' = [call EXCEPT ![i] = InitCall("countRoles", 0, NoErr, NoErr)]
    /\ UNCHANGED <<store, now, req, held, out>>

\* const roleCount = await this.countRoles()
CountRoles(i) ==
    /\ call[i].pc = "countRoles"
    /\ call' = [call EXCEPT ![i].pc = "counted", ![i].roleCount = countRoles]
    /\ UNCHANGED <<store, now, req, held, out>>

\* the rest of init: the INSERT when the count was zero, the catch block
SeedRoles(i) ==
    LET c == call[i]
        error == IF needsRoles(c.roleCount) THEN InsertRolesError ELSE NoErr
    IN  /\ c.pc = "counted"
        /\ roles' = IF needsRoles(c.roleCount) /\ error = NoErr
                    THEN roles \cup DefaultRoles ELSE roles
        /\ call' = [call EXCEPT ![i].pc = "done", ![i].caught = error,
                                ![i].raised = IF error = NoErr THEN NoErr
                                              ELSE initCatch(error)]
        /\ UNCHANGED <<users, user_roles, nextId, now, req, held, out>>

NextRoles == \E i \in Instances : Construct(i) \/ CountRoles(i) \/ SeedRoles(i)

SpecRoles == InitRoles /\ [][NextRoles]_vars

(***************************************************************************)
(* The checks register, login and createUser make on the username and the  *)
(* password of the request body, which are JavaScript values, and the      *)
(* store and bcrypt calls that come between the checks.  call is the one   *)
(* request in progress; call.effects are the store and bcrypt calls made.  *)
(***************************************************************************)
JsNumber(n) == [type |-> "number", str |-> ToString(n), arr |-> <<>>]

BodyUsernames == {JsUndefined, JsString(""), JsString(" "), JsString("a"), JsString("root"), JsNumber(5)}

BodyPasswords == {JsUndefined, JsString(""), JsString(" "), JsString("p"), JsNumber(5)}

\* !value
Falsy(v) ==
    \/ v.type = "undefined"
    \/ v.type = "string" /\ v.str = ""
    \/ v.type = "number" /\ v.str = "0"

\* String.prototype.trim, for the space character
RECURSIVE Trim(_)
Trim(s) ==
    IF Len(s) > 0 /\ SubSeq(s, 1, 1) = " " THEN Trim(SubSeq(s, 2, Len(s)))
    ELSE IF Len(s) > 0 /\ SubSeq(s, Len(s), Len(s)) = " "
    THEN Trim(SubSeq(s, 1, Len(s) - 1))
    ELSE s

\* if (!username || !password) throw new ValidationError(...): in the
\* controllers and again in AuthService.register and login
requireBoth(username, password) ==
    IF Falsy(username) \/ Falsy(password)
    THEN ValidationError("Username and password are required")
    ELSE NoErr

\* the typeof test that opens UserService.createUser and authenticateUser
requireStrings(username, password) ==
    IF username.type # "string" \/ password.type # "string"
    THEN Err("Error", "username and password must be of type string")
    ELSE NoErr

\* the User constructor on (null, username, hashedPassword, new Date(), false):
\* a bcrypt hash is a non-empty string
newUserError(username) ==
    IF username.type # "string" \/ Trim(username.str) = ""
    THEN Err("Error", "username must be a string and not empty")
    ELSE NoErr

\* the catch blocks of UserService.createUser and authenticateUser
serviceCatch(op, username, error) ==
    IF op = "login"
    THEN Err("Error", "Error trying to Authenticate user " \o username.str
                      \o ": " \o ErrToString(error))
    ELSE Err("Error", "Error creating new user: " \o ErrToString(error))

\* the answer to an error, by operation: register and login through the
\* catch block of AuthService and errorHandler, POST /api/users by its
\* inline handler
inputAnswer(op, error) ==
    IF op = "register" THEN errorHandler(registerCatch(error))
    ELSE IF op = "login" THEN errorHandler(loginCatch(error))
    ELSE IF error.name = "ValidationError"
    THEN Response(400, "", error.message, {}, {})
    ELSE handlerError(Route("app", "createUser"),
                      "Error creating user " \o ErrToString(error), error)

\* what is checked before the first await on the store
inputError(op, username, password) ==
    IF requireBoth(username, password) # NoErr
    THEN requireBoth(username, password)
    ELSE IF requireStrings(username, password) # NoErr
    THEN serviceCatch(op, username, requireStrings(username, password))
    ELSE NoErr

InputCall(op, pc, username, password, effects, found, resp) ==
    [op |-> op, pc |-> pc, username |-> username, password |-> password,
     effects |-> effects, found |-> found, resp |-> resp]

IdleInput == InputCall("", "idle", JsUndefined, JsUndefined, {}, {}, NoResponse)

InitInput ==
    /\ users = {RootRow}
    /\ user_roles = {<<1, 1>>, <<1, 2>>}
    /\ roles = {[id |-> 1, name |-> "user"], [id |-> 2, name |-> "admin"]}
    /\ nextId = 2
    /\ now = 0
    /\ req = [c \in Clients |-> Idle]
    /\ held = [c \in Clients |-> {}]
    /\ out = {}
    /\ call = IdleInput

\* the request arrives and runs up to its first await on the store
Submit ==
    /\ call.pc \in {"idle", "answered"}
    /\ \E op \in {"register", "login", "createUser"}, username \in BodyUsernames, password \in BodyPasswords :
         LET error == inputError(op, username, password)
         IN  call' = IF error # NoErr
                     THEN InputCall(op, "answered", username, password, {}, {},
                                    inputAnswer(op, error))
                     ELSE InputCall(op, "lookup", username, password, {}, {},
                                    NoResponse)
    /\ UNCHANGED <<store, now, req, held, out>>

\* DbService.getUserByUsername has answered
Lookup ==
    LET c == call
        rows == getUserByUsername(c.username.str)
        picks == IF rows = {} THEN {{}} ELSE {{u} : u \in rows}
        done == [c EXCEPT !.effects = @ \cup {"getUserByUsername"}]
    IN  /\ c.pc = "lookup"
        /\ \E picked \in picks :
             call' =
               IF c.op = "login"
               THEN IF authenticateUser(picked, c.password.str).verified
                    THEN [done EXCEPT !.pc = "compare", !.found = picked]
                    ELSE [done EXCEPT !.pc = "answered", !.found = picked,
                            !.resp = login(authenticateUser(picked, c.password.str), now)]
               ELSE IF createUserLookup(c.username.str, c.password.str) # NoErr
               THEN [done EXCEPT !.pc = "answered", !.found = picked,
                       !.resp = inputAnswer(c.op,
                                  createUserLookup(c.username.str, c.password.str))]
               ELSE [done EXCEPT !.pc = "hash"]
        /\ UNCHANGED <<store, now, req, held, out>>

\* bcrypt.hash has answered; new User(...) follows
Hash ==
    LET c == call
        done == [c EXCEPT !.effects = @ \cup {"hashPassword"}]
        error == newUserError(c.username)
    IN  /\ c.pc = "hash"
        /\ call' = IF error # NoErr
                   THEN [done EXCEPT !.pc = "answered",
                           !.resp = inputAnswer(c.op, serviceCatch(c.op, c.username, error))]
                   ELSE [done EXCEPT !.pc = "save"]
        /\ UNCHANGED <<store, now, req, held, out>>

\* DbService.saveUser has answered
Save ==
    LET c == call
        user == User(nextId, c.username.str, hashPassword(c.password.str), FALSE, {})
        row == [id |-> nextId, username |-> user.username,
                password |-> user.password, is_banned |-> FALSE]
    IN  /\ c.pc = "save"
        /\ nextId <= MaxUsers
        /\ users' = users \cup {row}
        /\ user_roles' = user_roles \cup {<<nextId, 1>>}
        /\ nextId' = nextId + 1
        /\ call' = [c EXCEPT !.pc = "answered", !.effects = @ \cup {"saveUser"},
                      !.resp = IF c.op = "register"
                               THEN Response(201, "", "User registered successfully",
                                             {}, {getSafeObject(user)})
                               ELSE Response(201, "", "User created successfully", {}, {})]
        /\ UNCHANGED <<roles, now, req, held, out>>

\* bcrypt.compare has answered
Compare ==
    LET c == call
    IN  /\ c.pc = "compare"
        /\ call' = [c EXCEPT !.pc = "answered", !.effects = @ \cup {"verifyPassword"},
                      !.resp = login(authenticateUser(c.found, c.password.str), now)]
        /\ UNCHANGED <<store, now, req, held, out>>

NextInput == Submit \/ Lookup \/ Hash \/ Save \/ Compare

SpecInput == InitInput /\ [][NextInput]_vars

(***************************************************************************)
(* extractToken on the text of the Authorization header.  (extractToken    *)
(* above is its value on the headers the requests of the model carry: the  *)
(* word Bearer, one space, one token.)                                     *)
(***************************************************************************)
\* String.prototype.startsWith
StartsWith(s, prefix) ==
    Len(s) >= Len(prefix) /\ SubSeq(s, 1, Len(prefix)) = prefix

\* String.prototype.split for a separator of one character
RECURSIVE Split(_, _)
Split(s, sep) ==
    LET at == {i \in 1..Len(s) : SubSeq(s, i, i) = sep}
    IN  IF at = {} THEN <<s>>
        ELSE LET i == CHOOSE j \in at : \A l \in at : j <= l
             IN  <<SubSeq(s, 1, i - 1)>> \o Split(SubSeq(s, i + 1, Len(s)), sep)

\* extractToken(req) on req.headers.authorization: {} is null
extractTokenText(authorization) ==
    IF ~Falsy(authorization) /\ StartsWith(authorization.str, "Bearer ")
    THEN {Split(authorization.str, " ")[2]}
    ELSE {}

RECURSIVE Join(_)
Join(parts) == IF parts = <<>> THEN "" ELSE Head(parts) \o Join(Tail(parts))

HeaderPieces == {"Bearer", "Basic", " ", "t"}

\* the header values a request may carry: none, or text made of pieces
HeaderTexts ==
    {JsUndefined} \cup
    {JsString(Join(parts)) : parts \in UNION {[1..n -> HeaderPieces] : n \in 0..MaxParts}}

ExtractCall(pc, authorization, token) ==
    [pc |-> pc, authorization |-> authorization, token |-> token]

InitExtract ==
    /\ users = {RootRow}
    /\ user_roles = {<<1, 1>>, <<1, 2>>}
    /\ roles = {[id |-> 1, name |-> "user"], [id |-> 2, name |-> "admin"]}
    /\ nextId = 2
    /\ now = 0
    /\ req = [c \in Clients |-> Idle]
    /\ held = [c \in Clients |-> {}]
    /\ out = {}
    /\ call = ExtractCall("idle", JsUndefined, {})

\* a request with some Authorization header reaches authenticate
Receive ==
    /\ call.pc \in {"idle", "extracted"}
    /\ \E authorization \in HeaderTexts :
         call' = ExtractCall("received", authorization, {})
    /\ UNCHANGED <<store, now, req, held, out>>

\* const token = extractToken(req)
Extract ==
    /\ call.pc = "received"
    /\ call' = [call EXCEPT !.pc = "extracted",
                            !.token = extractTokenText(call.authorization)]
    /\ UNCHANGED <<store, now, req, held, out>>

NextExtract == Receive \/ Extract

SpecExtract == InitExtract /\ [][NextExtract]_vars

(***************************************************************************)
(* Two requests to protected routes at once: the seeded administrator has  *)
(* logged in from both clients, and each request interleaves with the      *)
(* other between authenticate's read of the caller and the store access of *)
(* the handler.                                                            *)
(***************************************************************************)
\* the token login gives the seeded administrator at time 0
RootToken ==
    generateToken([userId |-> 1, username |-> "root", roles |-> {"user", "admin"}], 0)

InitRace ==
    /\ users = {RootRow}
    /\ user_roles = {<<1, 1>>, <<1, 2>>}
    /\ roles = {[id |-> 1, name |-> "user"], [id |-> 2, name |-> "admin"]}
    /\ nextId = 2
    /\ now = 0
    /\ req = [c \in Clients |-> Idle]
    /\ held = [c \in Clients |-> {RootToken}]
    /\ out = {}
    /\ call = <<>>

NextRace ==
    \/ Deliver
    \/ \E c \in Clients :
        \/ AdminRequest(c)
        \/ CreateUserLookup(c)
        \/ CreateUserSave(c)
        \/ DeleteUser(c)
        \/ BanUser(c)
        \/ UnbanUser(c)
        \/ GetAllUsers(c)

SpecRace == InitRace /\ [][NextRace]_vars

(***************************************************************************)
(* DbService.banUser and unbanUser, one UPDATE statement each, and a       *)
(* record of the last two calls: call.before is the store before the       *)
(* earlier of them, call.between the store between them.                   *)
(***************************************************************************)
\* an UPDATE without its WHERE clause
banUserEveryone(id) ==
    [err |-> IF RowsById(id) = {} THEN NotFoundError("User not found") ELSE NoErr,
     users |-> {[u EXCEPT !.is_banned = TRUE] : u \in users}]

\* DbService.banUser: UPDATE users SET is_banned = true WHERE id = $1
\* RETURNING id; NotFoundError when no row is returned
banUser(id) ==
    [err |-> IF RowsById(id) = {} THEN NotFoundError("User not found") ELSE NoErr,
     users |-> {IF u.id = id THEN [u EXCEPT !.is_banned = TRUE] ELSE u : u \in users}]

\* DbService.unbanUser: UPDATE users SET is_banned = false WHERE ID = $1
\* RETURNING id
unbanUser(id) ==
    [err |-> IF RowsById(id) = {} THEN NotFoundError("User not found") ELSE NoErr,
     users |-> {IF u.id = id THEN [u EXCEPT !.is_banned = FALSE] ELSE u : u \in users}]

Tables == [users |-> users, user_roles |-> user_roles]

BanCall(name, id, err) == [name |-> name, id |-> id, err |-> err]

NoBanCall == BanCall("", 0, NoErr)

BanLog(before, first, between, second) ==
    [before |-> before, first |-> first, between |-> between, second |-> second]

\* a user registered as "a" besides the seeded administrator
ARow == [id |-> 2, username |-> "a", password |-> hashPassword("p"),
         is_banned |-> FALSE]

InitBan ==
    /\ users = {RootRow, ARow}
    /\ user_roles = {<<1, 1>>, <<1, 2>>, <<2, 1>>}
    /\ roles = {[id |-> 1, name |-> "user"], [id |-> 2, name |-> "admin"]}
    /\ nextId = 3
    /\ now = 0
    /\ req = [c \in Clients |-> Idle]
    /\ held = [c \in Clients |-> {}]
    /\ out = {}
    /\ call = BanLog(Tables, NoBanCall, Tables, NoBanCall)

\* banUser(id) runs
Ban ==
    \E id \in 1..MaxUsers :
      /\ users' = banUser(id).users
      /\ call' = BanLog(call.between, call.second, Tables,
                        BanCall("banUser", id, banUser(id).err))
      /\ UNCHANGED <<user_roles, roles, nextId, now, req, held, out>>

\* unbanUser(id) runs
Unban ==
    \E id \in 1..MaxUsers :
      /\ users' = unbanUser(id).users
      /\ call' = BanLog(call.between, call.second, Tables,
                        BanCall("unbanUser", id, unbanUser(id).err))
      /\ UNCHANGED <<user_roles, roles, nextId, now, req, held, out>>

NextBan == Ban \/ Unban

SpecBan == InitBan /\ [][NextBan]_vars

(***************************************************************************)
(* The token codec over time: a payload is signed, the clock moves, and a  *)
(* token is verified: the one issued, one with the same claims signed with *)
(* another secret, or the issued one with its roles rewritten.             *)
(***************************************************************************)
Payloads ==
    {[userId |-> i, username |-> u, roles |-> rs] :
        i \in 1..MaxUsers, u \in Usernames, rs \in SUBSET {"user", "admin"}}

TokenCall(pc, payload, issued, kind, result) ==
    [pc |-> pc, payload |-> payload, issued |-> issued, kind |-> kind,
     result |-> result]

Presented(c) ==
    LET token == CHOOSE x \in c.issued : TRUE
    IN  IF c.kind = "issued" THEN token
        ELSE IF c.kind = "foreign"
        THEN [token EXCEPT !.sig = Signature("guess", token.body)]
        ELSE [token EXCEPT !.body.roles = {"user", "admin", "guest"}]

InitToken ==
    /\ users = {RootRow}
    /\ user_roles = {<<1, 1>>, <<1, 2>>}
    /\ roles = {[id |-> 1, name |-> "user"], [id |-> 2, name |-> "admin"]}
    /\ nextId = 2
    /\ now = 0
    /\ req = [c \in Clients |-> Idle]
    /\ held = [c \in Clients |-> {}]
    /\ out = {}
    /\ \E payload \in Payloads :
         call = TokenCall("start", payload, {}, "", {})

Tick ==
    /\ call.pc \in {"start", "issued"}
    /\ now < MaxTime
    /\ now' = now + 1
    /\ UNCHANGED <<store, req, held, out, call>>

Issue ==
    /\ call.pc = "start"
    /\ call' = [call EXCEPT !.pc = "issued",
                            !.issued = {generateToken(call.payload, now)}]
    /\ UNCHANGED <<store, now, req, held, out>>

Verify ==
    /\ call.pc = "issued"
    /\ \E kind \in {"issued", "foreign", "rewritten"} :
         LET c == [call EXCEPT !.kind = kind]
         IN  call' = [c EXCEPT !.pc = "verified",
                               !.result = {verifyToken(Presented(c), now)}]
    /\ UNCHANGED <<store, now, req, held, out>>

NextToken == Tick \/ Issue \/ Verify

SpecToken == InitToken /\ [][NextToken]_vars

(***************************************************************************)
(* authorize applied to every argument and every request context.          *)
(***************************************************************************)
RoleArrays ==
    UNION {[1..n -> RoleNames] : n \in 0..MaxRoles}

RolesArgs ==
    {JsUndefined} \cup {JsString(r) : r \in RoleNames}
                  \cup {JsArray(a) : a \in RoleArrays}

Contexts ==
    {NoContext, Context(TRUE, FALSE, {})}
        \cup {Context(TRUE, TRUE, rs) : rs \in SUBSET RoleNames}

InitAuthorize ==
    /\ users = {RootRow}
    /\ user_roles = {<<1, 1>>, <<1, 2>>}
    /\ roles = {[id |-> 1, name |-> "user"], [id |-> 2, name |-> "admin"]}
    /\ nextId = 2
    /\ now = 0
    /\ req = [c \in Clients |-> Idle]
    /\ held = [c \in Clients |-> {}]
    /\ out = {}
    /\ \E rolesArg \in RolesArgs, ctx \in Contexts :
         call = [pc |-> "start", rolesArg |-> rolesArg, ctx |-> ctx,
                 err |-> NoErr]

\* the middleware runs: next() is called or ForbiddenError is thrown
Authorize ==
    /\ call.pc = "start"
    /\ call' = [call EXCEPT
                  !.pc = IF authorize(call.rolesArg, call.ctx)
                         THEN "next" ELSE "thrown",
                  !.err = IF authorize(call.rolesArg, call.ctx)
                          THEN NoErr
                          ELSE ForbiddenError("Insufficient permissions")]
    /\ UNCHANGED <<store, now, req, held, out>>

NextAuthorize == Authorize

SpecAuthorize == InitAuthorize /\ [][NextAuthorize]_vars

(***************************************************************************)
(* Registration and login.                                                 *)
(***************************************************************************)
\* the answers on their way out, by route
Answers(op) == {a \in out : a.route.op = op}

\* the claims of a token the server signed
Claims(token) == [userId |-> token.body.userId, username |-> token.body.username,
                  roles |-> token.body.roles]

\* C1: when register has accepted a username and password, a login with
\* that username and password made after the registration completed, the
\* user being neither banned nor deleted in between, succeeds, and the token
\* it returns verifies to the registered username.
C1_LoginAfterRegister ==
    \A a \in Answers("login") :
        a.known =>
            /\ a.resp.status = 200
            /\ \E token \in a.resp.token :
                 \E decoded \in verifyToken(token, now).decoded :
                     decoded.username = a.username

\* C2: register with the username of a stored user fails with ConflictError
\* (409), and the store still holds exactly one row for that username.
C2_RegisterConflict ==
    \A a \in Answers("register") :
        (a.pc = "createUser.lookup" /\ a.found # {}) =>
            /\ a.resp.error = "ConflictError"
            /\ a.resp.status = 409
            /\ Cardinality(RowsByUsername(a.username)) = 1

\* C3: under every interleaving of concurrent register and createUser calls
\* the users table never holds two rows with the same username.
C3_UniqueUsernames ==
    \A r1 \in users : \A r2 \in users :
        r1.username = r2.username => r1.id = r2.id

\* the answer of a login whose lookup returned the user u, as the client
\* sees it
LoginOutcome(u, password) == login(authenticateUser({u}, password), now)

\* C4: for a banned user login answers the same (Forbidden) whatever the
\* password is: two logins that differ only in the password are answered
\* alike, and the password is never compared once the ban has been seen.
C4_BannedLoginHidesPassword ==
    /\ \A a \in Answers("login") :
         (\E u \in a.found : u.isBanned) =>
             /\ a.resp = errorHandler(ForbiddenError("Permission denied"))
             /\ ~a.verified
             /\ a.pc = "login.lookup"
    /\ \A c \in Clients :
         req[c].pc = "login.verify" => \A u \in req[c].found : ~u.isBanned
    /\ \A u \in UNION {getUserByUsername(username) : username \in Usernames} :
         u.isBanned =>
             \A p1 \in Passwords : \A p2 \in Passwords :
                 LoginOutcome(u, p1) = LoginOutcome(u, p2)

\* a banned user is refused while giving the right password
C4_BannedRightPassword ==
    \E a \in Answers("login") :
        \E u \in a.found :
            /\ u.isBanned
            /\ verifyPassword(a.password, u.password)
            /\ a.resp.status = 403

\* C5: a failed login is classified by its cause: an unknown username is
\* NotFoundError, a banned user ForbiddenError, a wrong password
\* AuthenticationError with the invalid-password message.
C5_LoginFailureKinds ==
    \A a \in Answers("login") :
        /\ a.found = {} =>
               /\ a.resp.error = "NotFoundError"
               /\ a.resp.status = 404
        /\ \A u \in a.found :
               /\ u.isBanned =>
                      /\ a.resp.error = "ForbiddenError"
                      /\ a.resp.status = 403
               /\ (~u.isBanned /\ u.password # hashPassword(a.password)) =>
                      /\ a.resp.error = "AuthenticationError"
                      /\ a.resp.message = "invalid password"
                      /\ a.resp.status = 401
        /\ a.resp.status # 200 =>
               a.resp.error \in {"NotFoundError", "ForbiddenError",
                                 "AuthenticationError"}

\* a wrong password for a user who is not banned has been answered
C5_WrongPasswordAnswered ==
    \E a \in Answers("login") :
        /\ a.resp.error = "AuthenticationError"
        /\ \E u \in a.found : ~u.isBanned /\ u.password # hashPassword(a.password)

(***************************************************************************)
(* Access control.                                                         *)
(***************************************************************************)
\* the claims of the token a request carries, when the token is correctly
\* signed and has not expired
ValidClaims(r) ==
    IF r.header = <<>> \/ r.header[1] # "Bearer" THEN {}
    ELSE verifyToken(r.header[2], now).decoded

\* the middleware in front of a protected handler, all passed
FullChain == <<"authenticate", "authorize">>

\* a request stopped in the chain is answered in the step that reads the
\* store, so the store next to the answer is the store of the request
C6_Rejections ==
    \A a \in out :
        (a.route \in AdminRoutes /\ a.pc = "chain") =>
            \A claims \in ValidClaims(a) :
                LET rows == {row \in users : row.id = claims.userId}
                IN  /\ rows = {} =>
                        /\ a.passed = <<>>
                        /\ a.resp.error = "AuthenticationError"
                        /\ a.resp.status = 401
                    /\ (\E row \in rows : row.is_banned) =>
                        /\ a.passed = <<>>
                        /\ a.resp.error = "ForbiddenError"
                        /\ a.resp.message = "User is banned"
                        /\ a.resp.status = 403
                    /\ (\E row \in rows : ~row.is_banned) =>
                        /\ a.passed # <<>>
                        /\ a.passed[1] = "authenticate"

\* a request that enters a handler carries the token of a user who is
\* stored and not banned as the request is made
C6_Passes ==
    \A c \in Clients :
        (req[c].pc = "idle" /\ req'[c].pc # "idle" /\ req'[c].route \in AdminRoutes) =>
            /\ req'[c].passed # <<>>
            /\ req'[c].passed[1] = "authenticate"
            /\ \A claims \in ValidClaims(req'[c]) :
                 \E row \in users : row.id = claims.userId /\ ~row.is_banned
            /\ ValidClaims(req'[c]) # {}

\* C6: a request with a correctly signed, unexpired token passes
\* authenticate only if the user id of the token belongs to a user who is
\* stored and not banned at the time of the request, whatever the user's
\* state was when the token was issued; it fails with AuthenticationError
\* if the user is gone and with ForbiddenError if the user is banned.
C6_AuthenticateChecksStore == [] C6_Rejections /\ [][C6_Passes]_vars

\* a token issued to a user who was banned afterwards is refused
C6_BannedAfterIssue ==
    \E a \in out :
        /\ a.route \in AdminRoutes
        /\ ValidClaims(a) # {}
        /\ a.resp.message = "User is banned"

\* every request in or past a protected handler has passed authenticate and
\* then authorize(["admin"]) with an admin's claims; a request that failed
\* either was answered with the error from the chain
C8_HandlerBehindChain ==
    /\ \A c \in Clients :
         (req[c].pc # "idle" /\ req[c].route \in AdminRoutes) =>
             /\ req[c].passed = FullChain
             /\ \E u \in req[c].user : "admin" \in u.roles
    /\ \A a \in out :
         a.route \in AdminRoutes =>
             /\ a.pc = "chain" <=> a.passed # FullChain
             /\ a.pc = "chain" =>
                    /\ a.resp.status \in {401, 403}
                    /\ a.resp.error \in {"AuthenticationError", "ForbiddenError"}

\* a step that deletes, bans or unbans a user completes a request that
\* passed the chain, and a step that answers from the chain leaves the store
\* as it is
C8_StoreEffect ==
    /\ (\E row \in users : row \notin users') =>
           \E c \in Clients :
               /\ req[c].route \in AdminRoutes
               /\ req[c].pc = "handler"
               /\ req[c].passed = FullChain
               /\ req'[c] = Idle
    /\ (\E a \in out' : a.route \in AdminRoutes /\ a.passed # FullChain) =>
           store' = store

\* C8: on every admin-only operation (create, list, delete, ban, unban) the
\* handler's store effect happens only after authenticate has passed and
\* then authorize(["admin"]) has passed; a failure of either ends the
\* request with an error response and the handler never runs.
C8_AdminOnly == [] C8_HandlerBehindChain /\ [][C8_StoreEffect]_vars

\* an admin has banned a user through the chain
C8_AdminBanned ==
    \E a \in out :
        /\ a.route \in AdminRoutes
        /\ a.route.op = "banUser"
        /\ a.passed = FullChain
        /\ a.resp.status = 200

\* the user a login picked is a user of the store as the login reads it,
\* with the roles the store links to it
C10_LoginReadsStore ==
    \A c \in Clients :
        (req[c].pc = "idle" /\ req'[c].pc = "login.verify") =>
            \E row \in users : \E u \in req'[c].found :
                /\ row.username = req'[c].username
                /\ u.id = row.id
                /\ u.username = row.username
                /\ u.roles = {role.name : role \in
                                 {x \in roles : <<row.id, x.id>> \in user_roles}}

C10_TokenOfPicked ==
    \A a \in Answers("login") :
        a.resp.status = 200 =>
            /\ Cardinality(a.resp.token) = 1
            /\ \A token \in a.resp.token : \E u \in a.found :
                 Claims(token) = [userId |-> u.id, username |-> u.username,
                                  roles |-> u.roles]

\* C10: a successful login returns a token whose user id, username and
\* roles are those the store holds for that user at the moment of the
\* login (the moment login reads the user).
C10_TokenMatchesStore == [] C10_TokenOfPicked /\ [][C10_LoginReadsStore]_vars

\* a user with roles has logged in
C10_LoggedInWithRoles ==
    \E a \in Answers("login") :
        /\ a.resp.status = 200
        /\ \E token \in a.resp.token : "admin" \in token.body.roles

\* the roles an argument of authorize asks for
RequiredRoles(rolesArg) ==
    IF rolesArg.type = "string" THEN {rolesArg.str}
    ELSE {rolesArg.arr[i] : i \in DOMAIN rolesArg.arr}

\* C7: authorize(requiredRoles) passes exactly when the request context has
\* a roles list and either requiredRoles is empty or one of the context's
\* roles is in requiredRoles; otherwise it fails with ForbiddenError.  For
\* ["admin"]: rejected without the admin role, authorized with it.
C7_AuthorizeExactly ==
    call.pc # "start" =>
        LET required == RequiredRoles(call.rolesArg)
            allowed == /\ call.ctx.present
                       /\ call.ctx.hasRoles
                       /\ (required = {} \/ call.ctx.roles \cap required # {})
        IN  /\ call.pc = "next" <=> allowed
            /\ call.pc = "thrown" <=> ~allowed
            /\ call.pc = "thrown" =>
                   /\ call.err.name = "ForbiddenError"
                   /\ errorHandler(call.err).status = 403
            /\ (call.rolesArg = JsArray(<<"admin">>) /\ call.ctx.hasRoles) =>
                   (call.pc = "next" <=> "admin" \in call.ctx.roles)

\* one of two required roles is enough
C7_OneRoleOfTwo ==
    /\ call.pc = "next"
    /\ call.rolesArg = JsArray(<<"admin", "guest">>)
    /\ call.ctx.roles = {"user", "admin"}

(***************************************************************************)
(* Tokens.                                                                 *)
(***************************************************************************)
\* C9: a token issued for (userId, username, roles) and verified before its
\* lifetime has elapsed gives back those claims; verified once the lifetime
\* has elapsed it gives the token-expired error; a token that was not
\* issued with the configured secret gives the token-invalid error.
C9_TokenRoundTrip ==
    call.pc = "verified" =>
        \A result \in call.result : \A token \in call.issued :
            /\ (call.kind = "issued" /\ now < token.body.iat + JWT_EXPIRES_IN) =>
                   /\ result.err = NoErr
                   /\ \E decoded \in result.decoded :
                        /\ decoded.userId = call.payload.userId
                        /\ decoded.username = call.payload.username
                        /\ decoded.roles = call.payload.roles
            /\ (call.kind = "issued" /\ now >= token.body.iat + JWT_EXPIRES_IN) =>
                   /\ result.err.name = "TokenExpiredError"
                   /\ result.decoded = {}
            /\ call.kind # "issued" =>
                   /\ result.err.name = "JsonWebTokenError"
                   /\ result.decoded = {}

\* a token issued by the server is verified after its lifetime
C9_VerifiedTooLate ==
    /\ call.pc = "verified"
    /\ call.kind = "issued"
    /\ \E token \in call.issued : token.body.iat > 0 /\ now = token.body.exp
    /\ \E result \in call.result : result.err.name = "TokenExpiredError"

(***************************************************************************)
(* Token validation.                                                       *)
(***************************************************************************)
\* what the store holds for a user id now, as a safe projection
CurrentSafe(id) ==
    {[id |-> row.id, username |-> row.username, isBanned |-> row.is_banned,
      roles |-> {x.name : x \in {y \in roles : <<row.id, y.id>> \in user_roles}}] :
        row \in {r \in users : r.id = id}}

\* the token of a validate request, and its claims when it verifies
BearerToken(a) ==
    IF Len(a.header) = 2 /\ a.header[1] = "Bearer" THEN {a.header[2]} ELSE {}

BearerClaims(a) == UNION {verifyToken(token, now).decoded : token \in BearerToken(a)}

\* the user ids an answered request called validateToken with
ValidatedIds(a) ==
    IF a.route = MeRoute /\ a.pc = "handler" THEN {u.userId : u \in a.user}
    ELSE IF a.route = ValidateRoute /\ a.username # ""
    THEN {d.userId : d \in {x \in BearerClaims(a) : x.username = a.username}}
    ELSE {}

\* C11: validateToken(userId) fails with NotFoundError if no user has the id
\* at call time, with ForbiddenError if that user is banned at call time,
\* and otherwise returns the user's current safe projection: the store's
\* isBanned and roles, not the token's.
C11_ValidateTokenLive ==
    \A a \in out : \A id \in ValidatedIds(a) :
        /\ CurrentSafe(id) = {} =>
               /\ a.resp.error = "NotFoundError"
               /\ a.resp.status = 404
        /\ (\E u \in CurrentSafe(id) : u.isBanned) =>
               /\ a.resp.error = "ForbiddenError"
               /\ a.resp.status = 403
        /\ (\E u \in CurrentSafe(id) : ~u.isBanned) =>
               /\ a.resp.status = 200
               /\ a.resp.user = CurrentSafe(id)

\* a user banned after authenticate let the request through is refused by
\* validateToken
C11_BannedSinceAuthenticate ==
    \E a \in out :
        /\ a.route = MeRoute
        /\ a.pc = "handler"
        /\ a.resp.error = "ForbiddenError"

\* C12 as stated: validateTokenWithUsername fails with AuthenticationError
\* whenever the token does not verify or the username in the token differs
\* from the supplied one, and succeeds only when the token verifies, the
\* usernames match and validateToken succeeds.
C12_ValidateWithUsername ==
    \A a \in Answers("validate") :
        (a.header # <<>> /\ a.header[1] = "Bearer") =>
            /\ (\A d \in BearerClaims(a) : d.username # a.username) =>
                   a.resp.error = "AuthenticationError"
            /\ a.resp.status = 200 =>
                   \E d \in BearerClaims(a) :
                       /\ d.username = a.username
                       /\ \E u \in CurrentSafe(d.userId) : ~u.isBanned

\* C12 amended: the same for a call with a non-empty token and a non-empty
\* username; a call without one of them fails with ValidationError.
C12_ValidateWithUsernameGiven ==
    \A a \in Answers("validate") :
        (a.header # <<>> /\ a.header[1] = "Bearer") =>
            /\ (BearerToken(a) # {} /\ a.username # "") =>
                   /\ (\A d \in BearerClaims(a) : d.username # a.username) =>
                          /\ a.resp.error = "AuthenticationError"
                          /\ a.resp.status = 401
                   /\ a.resp.status = 200 <=>
                          \E d \in BearerClaims(a) :
                              /\ d.username = a.username
                              /\ \E u \in CurrentSafe(d.userId) : ~u.isBanned
            /\ (BearerToken(a) = {} \/ a.username = "") =>
                   a.resp.error = "ValidationError"

\* the token of a stored, unbanned user is refused for another username
C12_OtherUsername ==
    \E a \in Answers("validate") :
        /\ a.username # ""
        /\ a.resp.message = "Username mismatch"
        /\ \E d \in BearerClaims(a) : \E u \in CurrentSafe(d.userId) : ~u.isBanned

\* C13 as stated: every failing POST /api/auth/validate is answered 401,
\* whatever the cause.
C13_ValidateFails401 ==
    \A a \in Answers("validate") : a.resp.status # 200 => a.resp.status = 401

\* C13 amended: a failing validate is answered 401 for a missing or
\* malformed header, a bad or expired token and a username mismatch; 400
\* for a missing username or an empty token; 404 when the token's user is
\* gone; 403 when the token's user is banned.
C13_ValidateFailureStatus ==
    \A a \in Answers("validate") :
        a.resp.status # 200 =>
            IF a.header = <<>> \/ a.header[1] # "Bearer" THEN a.resp.status = 401
            ELSE IF BearerToken(a) = {} \/ a.username = "" THEN a.resp.status = 400
            ELSE IF \A d \in BearerClaims(a) : d.username # a.username
            THEN a.resp.status = 401
            ELSE \A d \in BearerClaims(a) :
                    /\ CurrentSafe(d.userId) = {} => a.resp.status = 404
                    /\ CurrentSafe(d.userId) # {} => a.resp.status = 403

\* the token of a user deleted since is answered 404
C13_DeletedUser ==
    \E a \in Answers("validate") :
        /\ a.resp.status = 404
        /\ \E d \in BearerClaims(a) : d.username = a.username

(***************************************************************************)
(* What leaves the server.                                                 *)
(***************************************************************************)
\* C15: no value returned by register, login, validate, /me, get-user or
\* list-users holds the stored password hash: every user object in an
\* answer is the safe projection, and a token carries the id, the username
\* and the roles only.
C15_NoHashLeaves ==
    \A a \in out :
        /\ \A u \in a.resp.user :
               /\ "password" \notin DOMAIN u
               /\ DOMAIN u = {"id", "username", "isBanned", "roles"}
        /\ \A token \in a.resp.token :
               DOMAIN token.body = {"userId", "username", "roles", "iat", "exp"}

\* get-user has answered with a user
C15_UserReturned ==
    \E a \in out :
        /\ a.route \in GetUserRoutes
        /\ a.resp.status = 200
        /\ \E u \in a.resp.user : \E row \in users : row.id = u.id

\* C16: a non-admin authenticated caller of GET /api/users/:id receives
\* user data only when :id is the userId of its token; for any other id the
\* request fails with Forbidden before the store is read; a caller whose
\* roles include admin may read any id.
C16_OwnAccountOnly ==
    /\ \A a \in out :
         (a.route \in GetUserRoutes /\ a.passed # <<>>) =>
             \A caller \in a.user :
                 /\ ("admin" \notin caller.roles /\ a.resp.user # {}) =>
                        a.id = caller.userId
                 /\ ("admin" \notin caller.roles /\ a.id # caller.userId) =>
                        /\ a.resp.status = 403
                        /\ a.pc \in {"chain", "guard"}
                 /\ "admin" \in caller.roles =>
                        /\ a.pc = "handler"
                        /\ a.resp.status = IF CurrentSafe(a.id) = {} THEN 404 ELSE 200
                        /\ a.resp.user = CurrentSafe(a.id)
    /\ \A c \in Clients :
         (req[c].route \in GetUserRoutes /\ req[c].pc = "handler") =>
             \A caller \in req[c].user :
                 "admin" \in caller.roles \/ req[c].id = caller.userId

\* a user without the admin role has read its own account
C16_ReadOwnAccount ==
    \E a \in out :
        /\ a.route \in GetUserRoutes
        /\ a.resp.status = 200
        /\ \E caller \in a.user :
             /\ "admin" \notin caller.roles
             /\ a.id = caller.userId

(***************************************************************************)
(* Errors of the admin operations.                                         *)
(***************************************************************************)
\* C14: deleteUserById, banUser, unbanUser and getUserBanStatus, called
\* with an integer id that no user has, fail with an error the caller still
\* recognises as NotFoundError, so that the HTTP layer answers 404 and not
\* the generic 500.
C14_NotFoundSurfaces ==
    \A a \in out :
        ( /\ a.route \in AdminRoutes
          /\ a.route.op \in {"deleteUser", "banUser", "unbanUser"}
          /\ a.pc = "handler"
          /\ a.resp.status # 200 ) =>
            /\ a.resp.status = 404
            /\ a.resp.error = "NotFoundError"
            /\ getUserBanStatus(a.id).err.name = "NotFoundError"

(***************************************************************************)
(* The store as other connections see it while transactions are in flight. *)
(***************************************************************************)
LinksOf(id) == {ur \in user_roles : ur[1] = id}

Reads == {a \in out : a.op = "read"}

Thrown(op) == {a \in out : a.op = op /\ a.pc = "thrown"}

Returned(op) == {a \in out : a.op = op /\ a.pc = "returned"}

\* C17: in every committed state of the store each users row has its link
\* to role 1, and a getUserByUsername or getUserById that runs while a
\* saveUser is in flight finds no user or a user that has the role "user",
\* never a user with no roles.
C17_RowHasDefaultRole ==
    /\ \A row \in users : <<row.id, 1>> \in user_roles
    /\ \A a \in Reads : \A user \in a.found : "user" \in user.roles

\* a saveUser has inserted both rows and not committed, and a read for the
\* username it inserts has returned nothing
C17_ReadDuringSave ==
    /\ \E k \in Connections :
         /\ call[k].pc = "save.commit"
         /\ call[k].tx.insUsers # {}
         /\ \A row \in call[k].tx.insUsers : RowsByUsername(row.username) = {}
    /\ \E a \in Reads : a.found = {}

\* the role links each stored user was given: the seeded admin has two
GivenLinks(row) ==
    IF row = RootRow THEN {<<1, 1>>, <<1, 2>>} ELSE {<<row.id, 1>>}

UserWithItsLinks ==
    /\ \A row \in users : LinksOf(row.id) = GivenLinks(row)
    /\ \A ur \in user_roles : RowsById(ur[1]) # {}
    /\ \A a \in Reads : \A user \in a.found : user.roles # {}

\* a step of a deleteUser call changes the committed tables only when its
\* COMMIT succeeds, and then takes the users row and its links out together
DeleteUserStep ==
    \A k \in Connections :
      LET c == call[k]
      IN  (c.op = "deleteUser" /\ call'[k] # c) =>
            IF c.pc = "delete.commit" /\ call'[k].err # StoreError("COMMIT")
            THEN /\ users' = users \ c.tx.delUsers
                 /\ user_roles' = user_roles \ c.tx.delRoles
            ELSE UNCHANGED <<users, user_roles>>

\* C18: deleteUser removes the user_roles rows and the users row as one
\* atomic step: a call that fails after the user_roles delete and before
\* the users delete leaves the committed store unchanged, and no concurrent
\* reader sees the user without its role links.
C18_DeleteUserAtomic == []UserWithItsLinks /\ [][DeleteUserStep]_vars

\* deleteUser has thrown the error of its DELETE FROM users, which followed
\* its DELETE FROM user_roles, and the user is stored with its links
C18_FailedBetweenDeletes ==
    \E a \in Thrown("deleteUser") :
      /\ a.err = StoreError("DELETE FROM users")
      /\ RowsById(a.id) # {}
      /\ \A row \in RowsById(a.id) : LinksOf(a.id) = GivenLinks(row)

\* the error each statement of saveUser rejects with, by how far the call
\* had come: id is 0 until INSERT INTO users has returned one
SaveErrors(id) ==
    IF id = 0
    THEN {StoreError("BEGIN"), StoreError("INSERT INTO users")}
    ELSE {StoreError("INSERT INTO user_roles"), StoreError("COMMIT")}

DeleteErrors ==
    {StoreError(statement) :
       statement \in {"BEGIN", "DELETE FROM user_roles", "DELETE FROM users", "COMMIT"}}

\* both DELETE statements and the COMMIT run in the transaction of the call,
\* and a call whose DELETE FROM users found no row does not return: it
\* throws NotFoundError unless a statement failed before
DeleteUserOutcome ==
    /\ \A k \in Connections :
         call[k].pc \in {"delete.roles", "delete.users", "delete.commit"}
           => call[k].tx.open
    /\ \A a \in Returned("deleteUser") : a.deleted # {}
    /\ \A a \in Thrown("deleteUser") :
         a.err \notin DeleteErrors
           => a.err = NotFoundError("User not found") /\ a.deleted = {}

\* the COMMIT of a deleteUser that found no users row changes neither table
DeleteNothingStep ==
    \A k \in Connections :
      LET c == call[k]
      IN  (c.pc = "delete.commit" /\ c.deleted = {} /\ call'[k] # c)
            => UNCHANGED <<users, user_roles>>

\* C20: DbService.deleteUser called with an id no user has reports
\* NotFoundError and leaves users and user_roles exactly as they were; both
\* DELETE statements run inside the same transaction.
C20_DeleteMissingUser == []DeleteUserOutcome /\ [][DeleteNothingStep]_vars

\* deleteUser has thrown NotFoundError for an id that no user has
C20_NotFoundThrown ==
    \E a \in Thrown("deleteUser") :
      /\ a.err = NotFoundError("User not found")
      /\ RowsById(a.id) = {}
      /\ LinksOf(a.id) = {}

(***************************************************************************)
(* The pool and the exits of the DbService operations.                     *)
(***************************************************************************)
Exited == {a \in out : a.pc = "exit"}

\* C21: every DbService operation that took a client from the pool releases
\* it exactly once on every exit path (return, NotFoundError, failed query,
\* failed ROLLBACK), so that no client is checked out when no operation is
\* in flight.
C21_ReleasedOnce ==
    /\ \A a \in Exited :
         /\ a.client = "pooled"
         /\ a.releases = (IF a.err = StoreError("connect") THEN 0 ELSE 1)
    /\ \A k \in Connections : call[k].pc \in {"idle", "exit"} <=> k \notin CheckedOut
    /\ \A k \in Connections : call[k].releases <= 1

\* an operation has thrown the error of its failed ROLLBACK, its client is
\* back in the pool and no operation is in flight
C21_RollbackFailed ==
    /\ \E a \in Exited : a.err = StoreError("ROLLBACK") /\ a.releases = 1
    /\ \A k \in Connections : call[k].pc = "idle"
    /\ CheckedOut = {}

\* C25: every DbService operation whose store query failed raises an error
\* to its caller; none returns normally after a failed query.
C25_FailedQueryThrows ==
    \A a \in Exited : a.failed => (a.exit = "throw" /\ a.err # NoErr)

\* C22: after any number of DbService.init runs, one after another or
\* interleaved, the roles table holds exactly the rows (1, "user") and
\* (2, "admin"), and no init run raises an error out of the constructor.
C22_RolesSeededOnce ==
    /\ roles \in {{}, DefaultRoles}
    /\ (\E i \in Instances : call[i].pc = "done") => roles = DefaultRoles
    /\ \A i \in Instances : call[i].raised = NoErr

\* two init runs both counted no role, both have ended, and the INSERT of
\* one of them was rejected
C22_BothCountedZero ==
    \E i, j \in Instances :
      /\ i # j
      /\ call[i].pc = "done" /\ call[j].pc = "done"
      /\ call[i].roleCount = 0 /\ call[j].roleCount = 0
      /\ call[i].caught = NoErr /\ call[j].caught # NoErr
      /\ roles = DefaultRoles

(***************************************************************************)
(* The username and the password of a request body.                        *)
(***************************************************************************)
\* missing, empty, whitespace-only or not a string
InvalidInput(v) == v.type # "string" \/ Trim(v.str) = ""

\* C23: register, login and createUser called with a username or password
\* that is missing, empty, whitespace-only or not a string are answered 400
\* before any store operation or hashing is performed.
C23_InvalidInputRejected ==
    (call.pc = "answered" /\ (InvalidInput(call.username) \/ InvalidInput(call.password)))
      => (call.resp.status = 400 /\ call.effects = {})

\* the word Bearer, one space, and one non-empty token with nothing after it
ExactBearer(v) ==
    /\ v.type = "string"
    /\ StartsWith(v.str, "Bearer ")
    /\ Len(v.str) > 7
    /\ \A i \in 8..Len(v.str) : SubSeq(v.str, i, i) # " "

\* C24: extractToken returns a token only when the Authorization header is
\* exactly the word Bearer, one space and one non-empty token with nothing
\* after it, and then returns that token; for every other header value it
\* returns none.
C24_ExactBearerOnly ==
    call.pc = "extracted" =>
      IF ExactBearer(call.authorization)
      THEN call.token = {SubSeq(call.authorization.str, 8, Len(call.authorization.str))}
      ELSE call.token = {}

(***************************************************************************)
(* Tokens of deleted users.                                                *)
(***************************************************************************)
\* the claims of the tokens with which a request is accepted in this step:
\* by authenticate in front of a handler, or by validateTokenWithUsername
AcceptedClaims ==
    UNION {ValidClaims(req'[c]) :
             c \in {d \in Clients : /\ req[d].pc = "idle"
                                    /\ req'[d].pc # "idle"
                                    /\ req'[d].passed # <<>>}}
    \cup UNION {BearerClaims(a) :
                  a \in {b \in out' : b.route = ValidateRoute /\ b.resp.status = 200}}

\* a new users row gets an id that no row or token had before, and a token
\* is accepted only for the id of a stored user
FreshIds ==
    /\ \A row \in users' : RowsById(row.id) = {} => row.id >= nextId /\ nextId' > row.id
    /\ nextId' >= nextId
    /\ \A claims \in AcceptedClaims : RowsById(claims.userId) # {}

IdsUsed ==
    /\ \A row \in users : row.id < nextId
    /\ \A c \in Clients : \A token \in held[c] : token.body.userId < nextId

\* C26: a token issued for a user that is deleted later is never accepted
\* again by authenticate or validateTokenWithUsername, even after the same
\* username has been registered anew: the new user gets an id different
\* from every id used before, so that the userId of the old token matches
\* no stored user.
C26_DeletedUserToken == []IdsUsed /\ [][FreshIds]_vars

\* validate has refused, with NotFoundError, the verified token of a deleted
\* user whose username belongs to a newer user
C26_OldTokenAfterReRegister ==
    \E a \in out :
      /\ a.route = ValidateRoute
      /\ a.resp.status = 404
      /\ \E claims \in BearerClaims(a) :
           /\ claims.username = a.username
           /\ RowsById(claims.userId) = {}
           /\ \E row \in users : row.username = claims.username /\ row.id > claims.userId

(***************************************************************************)
(* The caller of an admin operation, as the store holds it.                *)
(***************************************************************************)
\* the caller of request r is stored and not banned
CallerLive(r) ==
    /\ r.user # {}
    /\ \A u \in r.user : \E row \in users : row.id = u.userId /\ ~row.is_banned

\* client c's handler reads or writes the store in this step
HandlerAccess(c) ==
    /\ req[c].route \in AdminRoutes
    /\ req[c].pc \in {"handler", "createUser.lookup", "createUser.save"}
    /\ req'[c] # req[c]

\* C27 as stated: no admin operation changes or reads the store on behalf of
\* a caller who is banned or deleted at the moment of that store access.
C27_CallerLiveAtAccess ==
    [][\A c \in Clients : HandlerAccess(c) => CallerLive(req[c])]_vars

\* C27, amended: no admin operation changes or reads the store on behalf of
\* a caller who is banned or deleted at the moment authenticate reads the
\* caller for that request; every store access of a handler belongs to a
\* request that passed authenticate and authorize at that moment.
C27_CallerLiveAtAuthenticate ==
    [][\A c \in Clients :
         /\ HandlerAccess(c) => req[c].passed = FullChain
         /\ (req[c].pc = "idle" /\ req'[c].pc # "idle") =>
              (CallerLive(req'[c]) /\ req'[c].passed = FullChain)]_vars

\* a user was created on behalf of a caller who was banned after
\* authenticate had read the caller
C27_CreatedWhileBanned ==
    \E a \in out :
      /\ a.route \in AdminRoutes
      /\ a.route.op = "createUser"
      /\ a.resp.status = 201
      /\ a.passed = FullChain
      /\ \A u \in a.user : \E row \in users : row.id = u.userId /\ row.is_banned

(***************************************************************************)
(* The admin role.                                                         *)
(***************************************************************************)
\* the only link to role 2 is the one of the seeded administrator, and the
\* only tokens issued with the role admin are that user's
AdminIsSeeded ==
    /\ \A ur \in user_roles : ur[2] = 1 \/ ur = <<1, 2>>
    /\ \A c \in Clients : \A token \in held[c] :
         "admin" \in token.body.roles => token.body.userId = 1
    /\ \A a \in out : \A token \in a.resp.token :
         "admin" \in token.body.roles => token.body.userId = 1

\* every user_roles row written links to role 1, and a request passes
\* authenticate and authorize(["admin"]) only for a caller the store links
\* to role 2
AdminStep ==
    /\ \A ur \in user_roles' \ user_roles : ur[2] = 1
    /\ \A c \in Clients :
         (req[c].pc = "idle" /\ req'[c].pc # "idle" /\ req'[c].route \in AdminRoutes) =>
           \A u \in req'[c].user : <<u.userId, 2>> \in user_roles

\* C28: no sequence of API operations gives the admin role to a user: every
\* user_roles row the program writes links to role id 1, so that a user
\* whose stored roles lack "admin" never passes authorize(["admin"]) with a
\* token the program issued.
C28_NoAdminGranted == []AdminIsSeeded /\ [][AdminStep]_vars

\* a user created through the API has logged in and was refused by
\* authorize(["admin"]) with that token
C28_UserRefused ==
    \E a \in out :
      /\ a.route \in AdminRoutes
      /\ a.pc = "chain"
      /\ a.passed = <<"authenticate">>
      /\ a.resp.status = 403
      /\ \E claims \in ValidClaims(a) :
           /\ claims.userId # 1
           /\ <<claims.userId, 1>> \in user_roles
           /\ <<claims.userId, 2>> \notin user_roles

\* C29: the safe user a successful register returns equals what getUserById
\* returns for the same id immediately afterwards: the same id, username,
\* isBanned and role set.
C29_RegisterMatchesStore ==
    \A a \in Answers("register") :
      a.resp.status = 201 =>
        /\ a.resp.user # {}
        /\ \A u \in a.resp.user : UserService_getUserById(u.id) = {u}

(***************************************************************************)
(* The effect of banUser and unbanUser.                                    *)
(***************************************************************************)
\* the last call changed nothing but the is_banned flag of the user with
\* its id, and succeeded if there is such a user
OnlyTheFlag ==
    LET c == call.second
        was == call.between
    IN  c # NoBanCall =>
          /\ user_roles = was.user_roles
          /\ \A row \in was.users : row.id # c.id => row \in users
          /\ \A row \in was.users :
               row.id = c.id => [row EXCEPT !.is_banned = (c.name = "banUser")] \in users
          /\ Cardinality(users) = Cardinality(was.users)
          /\ c.err = NoErr <=> \E row \in was.users : row.id = c.id

\* the same call twice: the second leaves the state as it was
RepeatedCall ==
    (call.first = call.second /\ call.second # NoBanCall) =>
      (Tables = call.between /\ call.between.users # {})

BanThenUnban ==
    /\ call.first.name = "banUser"
    /\ call.second.name = "unbanUser"
    /\ call.first.id = call.second.id

\* C30 as stated: banUser(id) and unbanUser(id) change nothing but the
\* is_banned flag of the user with that id, a repeated ban or unban succeeds
\* and leaves the state as it was, and ban followed by unban restores the
\* earlier state.
C30_BanFrame ==
    /\ OnlyTheFlag
    /\ RepeatedCall
    /\ BanThenUnban => Tables = call.before

\* C30, amended: ... and ban followed by unban restores the earlier state
\* of a user who was not banned before the ban, and leaves a user who was
\* banned before it unbanned, all else as it was.
C30_BanFrameUnbanned ==
    /\ OnlyTheFlag
    /\ RepeatedCall
    /\ BanThenUnban =>
         /\ user_roles = call.before.user_roles
         /\ users = {IF row.id = call.first.id THEN [row EXCEPT !.is_banned = FALSE]
                     ELSE row : row \in call.before.users}

\* a user who was not banned has been banned and then unbanned, and the
\* store is as it was before the two calls
C30_BannedAndUnbanned ==
    /\ BanThenUnban
    /\ \E row \in call.before.users : row.id = call.first.id /\ ~row.is_banned
    /\ \E row \in call.between.users : row.id = call.first.id /\ row.is_banned
    /\ Tables = call.before


====
